---- MODULE Spec2Model ----
(***************************************************************************)
(* Model of the direct trip-plan pipeline of the smart-tourism backend:    *)
(* the POST /direct-plan handler (localAIController.js), the service       *)
(* method generateDirectTripPlan with its three itinerary builders         *)
(* (processDirectTripPlan, extractTripPlanFromText,                        *)
(* getDirectFallbackTripPlan) in localAIService.js, and the travel-time    *)
(* lookup of the traffic service.                                          *)
(*                                                                         *)
(* Node runs one handler at a time, so each action below is the code that  *)
(* runs between two awaits of one request.                                 *)
(***************************************************************************)
EXTENDS Integers, Sequences, FiniteSets, TLC

(***************************************************************************)
(* Bounds of the model.                                                    *)
(***************************************************************************)
MaxRequests == 3
MaxClock == 1

Requests == 1..MaxRequests

(***************************************************************************)
(* JavaScript numbers.  currentTime is a double holding hours; the values  *)
(* it takes are sums of quotients n/60.  A double x is kept exactly as the *)
(* pair [m, e] with x = m/60 + e/(60 * 2^56): m is the number of minutes   *)
(* the exact arithmetic would give and e the rounding error accumulated by *)
(* IEEE-754 round-to-nearest-even.  Every double met here is a multiple of *)
(* 2^-56, so e is an integer.                                              *)
(***************************************************************************)
Dbl(m, e) == [m |-> m, e |-> e]

\* 2^k mod 15
Pow2Mod15(k) == 2 ^ (k % 4)

\* 2^56 mod (60 * 2^s)
Pow56Mod(s) == (2 ^ (s + 2)) * Pow2Mod15(54 - s)

\* s such that the unit in the last place of a double near m/60 is 2^(s-56)
UlpShift(m, e) ==
  LET AtLeast(t) == m > t \/ (m = t /\ e >= 0)
  IN  IF AtLeast(1920) THEN 9
      ELSE IF AtLeast(960) THEN 8
      ELSE IF AtLeast(480) THEN 7
      ELSE IF AtLeast(240) THEN 6
      ELSE IF AtLeast(120) THEN 5
      ELSE IF AtLeast(60) THEN 4
      ELSE IF AtLeast(30) THEN 3
      ELSE IF AtLeast(15) THEN 2
      ELSE IF m >= 8 THEN 1
      ELSE 0

\* The double nearest to the exact value m/60 + e/(60 * 2^56), ties to even.
Nearest(m, e) ==
  IF m = 0 /\ e = 0 THEN Dbl(0, 0)
  ELSE
  LET s    == UlpShift(m, e)
      u    == 60 * (2 ^ s)
      r    == (Pow56Mod(s) * m + e) % u
      down == e - r
      even == ((Pow56Mod(s + 1) * m + down) % (2 * u)) = 0
  IN  IF 2 * r < u THEN Dbl(m, down)
      ELSE IF 2 * r > u THEN Dbl(m, down + u)
      ELSE IF even THEN Dbl(m, down)
      ELSE Dbl(m, down + u)

\* Nearest of two expressions, each evaluated once
RoundDbl(m, e) == CHOOSE d \in {Nearest(mv, ev) : mv \in {m}, ev \in {e}} : TRUE

\* n / 60 and x + y as JavaScript computes them
DivSixty(n) == RoundDbl(n, 0)
AddDbl(x, y) == RoundDbl(x.m + y.m, x.e + y.e)

\* Math.floor(x) for x >= 0
FloorHours(x) == IF x.e < 0 THEN (x.m - 1) \div 60 ELSE x.m \div 60

\* (x % 1) * 60 lies strictly between two whole minutes unless e = 0;
\* MinuteOf is the whole minute at or just above it.
MinuteOf(x) == x.m - 60 * FloorHours(x)

\* Math.round((x % 1) * 60)
RoundMinutes(x) == MinuteOf(x)

\* The minutes argument of Date.setHours is truncated to an integer.
TruncMinutes(x) == IF x.e < 0 THEN MinuteOf(x) - 1 ELSE MinuteOf(x)


(***************************************************************************)
(* Strings.  The code only ever asks whether one string occurs in another  *)
(* (after toLowerCase), takes the first 50 characters, or trims and        *)
(* measures.  OccursIn lists, for the strings of the model, every pair     *)
(* <<s, w>> such that w.toLowerCase() is a proper substring of             *)
(* s.toLowerCase(), for the words w the code searches for.                 *)
(***************************************************************************)
TextCulturalLunch == "cultural sites with lunch, budget 500"
TextNatureAdults  == "nature walk up to the peak and a quiet afternoon outdoors, two adults"
TextNatureKids    == "nature walk up to the peak and a quiet afternoon outside with my kids"
TextShort         == "   hi  "

NoName == "<undefined>"

OccursIn ==
  { <<TextCulturalLunch, "cultural">>, <<TextCulturalLunch, "lunch">>,
    <<TextNatureAdults, "nature">>, <<TextNatureAdults, "peak">>,
    <<TextNatureKids, "nature">>, <<TextNatureKids, "peak">>,
    <<"Temple Street Night Market", "temple">>,
    <<"Temple Street Night Market", "market">>,
    <<"Graham Street Market", "market">>,
    <<"Victoria Peak Tram", "Victoria Peak">>,
    <<"Thunderstorms", "storm">> }

\* s.toLowerCase().includes(w.toLowerCase())
Includes(s, w) == s = w \/ <<s, w>> \in OccursIn

\* text.trim()
Trim(t) == IF t = TextShort THEN "hi" ELSE t

\* text.trim().length
TrimLength(t) ==
  CASE t = TextCulturalLunch -> 37
    [] t = TextNatureAdults  -> 69
    [] t = TextNatureKids    -> 69
    [] OTHER                 -> 2

\* userText.substring(0, 50)
Substring50(t) ==
  IF t \in {TextNatureAdults, TextNatureKids}
  THEN "nature walk up to the peak and a quiet afternoon o"
  ELSE t

(***************************************************************************)
(* Attractions and catalogs.  DefaultCatalog is the list the controller    *)
(* uses when the request body carries no attractions.  name = NoName and   *)
(* estimatedVisitTime = 0 stand for a field the caller left out.           *)
(***************************************************************************)
Attraction(id, name, category, priceRange, visit) ==
  [id |-> id, name |-> name, category |-> category,
   priceRange |-> priceRange, estimatedVisitTime |-> visit]

ThePeak        == Attraction("the-peak", "Victoria Peak", "nature", "medium", 180)
TsimShaTsui    == Attraction("tsim-sha-tsui", "Tsim Sha Tsui Promenade", "cultural", "free", 120)
TempleStreet   == Attraction("temple-street", "Temple Street Night Market", "food", "low", 150)
VictoriaHarbor == Attraction("victoria-harbor", "Victoria Harbor", "cultural", "free", 90)
StarFerry      == Attraction("star-ferry", "Star Ferry", "cultural", "low", 30)
Unnamed        == Attraction("pier-9", NoName, "nature", "high", 0)
GrahamStreet   == Attraction("graham-street", "Graham Street Market", "food", "low", 60)
PeakTram       == Attraction("peak-tram", "Victoria Peak Tram", "nature", "medium", 60)

DefaultCatalog == <<ThePeak, TsimShaTsui, TempleStreet, VictoriaHarbor, StarFerry>>

NoCatalog == [given |-> FALSE, list |-> <<>>]
Given(list) == [given |-> TRUE, list |-> list]

\* what a request body may carry as attractions
CatalogInputs ==
  { NoCatalog, Given(<<>>), Given(<<TsimShaTsui>>),
    Given(<<TsimShaTsui, TempleStreet, ThePeak>>),
    Given(<<TsimShaTsui, GrahamStreet, ThePeak>>),
    Given(<<TempleStreet, Unnamed, TsimShaTsui>>),
    Given(<<PeakTram, ThePeak, TsimShaTsui>>) }

(***************************************************************************)
(* Context snapshots (realTimeData of the request body).  The value of     *)
(* weather.weatherCondition is kept in two fields: weatherCondition is the *)
(* value when it is a string and "" otherwise, conditionCode is the value  *)
(* when it is a number (the weather provider's icon code, which the        *)
(* weather endpoint returns as weatherCondition) and 0 otherwise.          *)
(***************************************************************************)
NoAlerts == <<>>
StormAlert == [title |-> "Thunderstorm Warning", severity |-> "high"]
MinorAlert == [title |-> "Fire Danger Warning", severity |-> "low"]

NoContext == [given |-> FALSE, weatherCondition |-> "", conditionCode |-> 0,
              temperature |-> 0, uvIndex |-> 0, airQuality |-> 0, alerts |-> NoAlerts]
Context(cond, temp, uv, aq, alerts) ==
  [given |-> TRUE, weatherCondition |-> cond, conditionCode |-> 0, temperature |-> temp,
   uvIndex |-> uv, airQuality |-> aq, alerts |-> alerts]
CodedContext(code, temp, uv, aq, alerts) ==
  [Context("", temp, uv, aq, alerts) EXCEPT !.conditionCode = code]

ContextInputs ==
  { NoContext,
    Context("Sunny", 26, 5, 80, NoAlerts),
    Context("Thunderstorms", 27, 2, 70, <<StormAlert>>),
    Context("Sunny", 26, 5, 80, <<MinorAlert>>),
    CodedContext(63, 26, 5, 80, NoAlerts) }

(***************************************************************************)
(* Travel-time matrices as returned by getTrafficMatrix: null or a list of *)
(* directional routes between attraction names.                            *)
(***************************************************************************)
NoMatrix == [present |-> FALSE, routes |-> <<>>]
Route(from, to, minutes) == [from |-> from, to |-> to, trafficDuration |-> minutes]
Matrix(routes) == [present |-> TRUE, routes |-> routes]

TrafficAnswers ==
  { NoMatrix,
    Matrix(<< Route("Tsim Sha Tsui Promenade", "Temple Street Night Market", 20),
              Route("Temple Street Night Market", "Victoria Peak", 35),
              Route("Victoria Peak Tram", "Victoria Peak", 15),
              Route("Victoria Peak Tram", "Tsim Sha Tsui Promenade", 40),
              Route("Victoria Peak", "Victoria Peak Tram", 12),
              Route("Victoria Peak", "Tsim Sha Tsui Promenade", 0),
              Route("Tsim Sha Tsui Promenade", "Victoria Peak Tram", 45),
              Route("Temple Street Night Market", "Tsim Sha Tsui Promenade", 25) >>) }

\* TrafficService.getTrafficTime (the second definition is the one in force)
getTrafficTime(trafficMatrix, fromName, toName) ==
  IF ~trafficMatrix.present \/ trafficMatrix.routes = <<>> THEN 0
  ELSE IF fromName = NoName \/ toName = NoName THEN 0   \* TypeError, caught
  ELSE
    LET routes == trafficMatrix.routes
        Match(r) ==
          /\ (Includes(r.from, fromName) \/ Includes(fromName, r.from))
          /\ (Includes(r.to, toName) \/ Includes(toName, r.to))
        hits == {i \in 1..Len(routes) : Match(routes[i])}
    IN  IF hits = {} THEN 0
        ELSE LET first == routes[CHOOSE i \in hits : \A j \in hits : i <= j]
             IN  IF first.trafficDuration > 0 THEN first.trafficDuration ELSE 0

\* LocalAIService.getPriceEstimate
getPriceEstimate(priceRange) ==
  CASE priceRange = "free"   -> 0
    [] priceRange = "low"    -> 25
    [] priceRange = "medium" -> 125
    [] priceRange = "high"   -> 350
    [] priceRange = "luxury" -> 750
    [] OTHER                 -> 0


(***************************************************************************)
(* Itineraries.  A visit carries the instant of its start and end as       *)
(* minutes after today's midnight (the Date objects of the code), the      *)
(* start as the pair <<hours, minutes>> when the code returns it as an     *)
(* "HH:MM" string (<<>> when it returns a Date), and the duration that the *)
(* end was computed from.  NaN is JavaScript's NaN (an Invalid Date).      *)
(***************************************************************************)
NaN == -1

Visit(a, startStr, start, duration, priority, visitOrder) ==
  [id |-> a.id, name |-> a.name, estimatedVisitTime |-> a.estimatedVisitTime,
   startStr |-> startStr, start |-> start, duration |-> duration,
   end |-> IF start = NaN \/ duration = NaN THEN NaN ELSE start + duration,
   estimatedCost |-> getPriceEstimate(a.priceRange),
   priority |-> priority, visitOrder |-> visitOrder]

\* The top-level fields of the objects the three builders return.  In the
\* plans below, fields is that set, plannedStartTime says what the visits'
\* plannedStartTime is (a Date object or an "HH:MM" string), and
\* plannedAttractions is the list of visits wherever the object keeps it
\* (plannedAttractions, or itinerary[0].attractions in the fallback's).
CommonFields ==
  {"id", "title", "description", "startDate", "endDate", "totalBudget", "estimatedCost",
   "itinerary", "createdAt", "updatedAt", "userText", "extractedPreferences",
   "recommendations", "aiProvider", "isPrivate", "isOffline", "processingTime"}
ProcessFields == CommonFields \cup {"plannedAttractions"}
FallbackFields == CommonFields \cup {"weatherContext"}
ExtractionFields ==
  {"id", "name", "description", "plannedAttractions", "startDate", "endDate",
   "totalEstimatedCost", "aiProvider", "preferences"}

Min(a, b) == IF a <= b THEN a ELSE b

\* list.slice(0, n)
Slice(list, n) == SubSeq(list, 1, Min(n, Len(list)))

RECURSIVE SumSeq(_)
\* the sum of a list of numbers, NaN absorbing
SumSeq(numbers) ==
  IF numbers = <<>> THEN 0
  ELSE LET rest == SumSeq(Tail(numbers))
       IN  IF rest = NaN \/ Head(numbers) = NaN THEN NaN ELSE Head(numbers) + rest

\* list.reduce((sum, x) => sum + F(x), 0)
SumOver(list, F(_)) == SumSeq([i \in 1..Len(list) |-> F(list[i])])

CostOf(v) == v.estimatedCost

\* the travel time both schedulers fall back to: 90 minutes, 1.5 hours
DefaultTravelMinutes == 90

(***************************************************************************)
(* getDirectFallbackTripPlan: weather preference, keyword selection,       *)
(* top-up, scheduling.                                                     *)
(***************************************************************************)
WeatherPreference(realTimeData) ==
  IF ~realTimeData.given THEN "any"
  ELSE
    LET cond == realTimeData.weatherCondition   \* typeof ... === 'string'
        hasAlerts == Len(realTimeData.alerts) > 0
    IN  IF \/ Includes(cond, "rain") \/ Includes(cond, "storm")
           \/ Includes(cond, "shower") \/ hasAlerts
        THEN "indoor"
        ELSE IF realTimeData.temperature > 30 \/ realTimeData.uvIndex > 8
        THEN "mixed"
        ELSE IF realTimeData.airQuality < 50 THEN "indoor"
        ELSE "any"

IsCombinedRequest(text) ==
  /\ Includes(text, "cultural")
  /\ \/ Includes(text, "dimsum") \/ Includes(text, "dim sum")
     \/ Includes(text, "food") \/ Includes(text, "lunch")

\* the filter callbacks of the combined branch; "throw" is the TypeError of
\* a.name.toLowerCase() on an attraction without a name
CulturalTest(a, pref) ==
  IF pref = "indoor" /\ a.category \notin {"museum", "cultural", "shopping"}
  THEN "no"
  ELSE IF a.category = "cultural" THEN "yes"
  ELSE IF a.name = NoName THEN "throw"
  ELSE IF \/ Includes(a.name, "temple") \/ Includes(a.name, "museum")
          \/ Includes(a.name, "heritage")
  THEN "yes" ELSE "no"

FoodTest(a) ==
  IF a.category = "food" THEN "yes"
  ELSE IF a.name = NoName THEN "throw"
  ELSE IF \/ Includes(a.name, "market") \/ Includes(a.name, "restaurant")
          \/ Includes(a.name, "dim sum") \/ Includes(a.name, "tea")
  THEN "yes" ELSE "no"

\* the filter callback of the single-category branch
KeywordTest(a, text, pref) ==
  IF pref = "indoor" /\ a.category \notin {"museum", "cultural", "shopping", "food"}
  THEN FALSE
  ELSE IF \/ Includes(text, "cultural") \/ Includes(text, "harbor")
          \/ Includes(text, "history")
  THEN a.category = "cultural"
  ELSE IF \/ Includes(text, "nature") \/ Includes(text, "peak")
          \/ Includes(text, "mountain")
  THEN pref # "indoor" /\ a.category = "nature"
  ELSE IF \/ Includes(text, "food") \/ Includes(text, "market")
          \/ Includes(text, "eat") \/ Includes(text, "dimsum")
  THEN a.category = "food"
  ELSE TRUE

FallbackThrows(userText, availableAttractions, realTimeData) ==
  /\ IsCombinedRequest(userText)
  /\ \E i \in 1..Len(availableAttractions) :
       \/ CulturalTest(availableAttractions[i], WeatherPreference(realTimeData)) = "throw"
       \/ FoodTest(availableAttractions[i]) = "throw"

KeywordSelection(userText, availableAttractions, realTimeData) ==
  LET pref == WeatherPreference(realTimeData)
      IsCultural(a) == CulturalTest(a, pref) = "yes"
      IsFood(a) == FoodTest(a) = "yes"
      Keyword(a) == KeywordTest(a, userText, pref)
  IN  IF IsCombinedRequest(userText)
      THEN Slice(SelectSeq(availableAttractions, IsCultural), 2)
             \o Slice(SelectSeq(availableAttractions, IsFood), 2)
      ELSE Slice(SelectSeq(availableAttractions, Keyword), 5)

\* a fallback that keeps the keyword selection as it is
NoTopUp(selected, availableAttractions) == selected

\* "Ensure we have at least some attractions"
TopUp(selected, availableAttractions) ==
  IF Len(selected) = 0 THEN Slice(availableAttractions, 4)
  ELSE IF Len(selected) < 3
  THEN LET NotSelected(a) == \A i \in 1..Len(selected) : selected[i].id # a.id
       IN  selected \o Slice(SelectSeq(availableAttractions, NotSelected),
                             4 - Len(selected))
  ELSE selected

FallbackSelection(userText, availableAttractions, realTimeData) ==
  TopUp(KeywordSelection(userText, availableAttractions, realTimeData),
        availableAttractions)

VisitDuration(a) == IF a.estimatedVisitTime # 0 THEN a.estimatedVisitTime ELSE 120

\* travelTimeHours of the fallback scheduler
FallbackTravel(traffic, from, to) ==
  LET trafficTime == getTrafficTime(traffic, from.name, to.name)
  IN  IF traffic.present /\ trafficTime > 0
      THEN DivSixty(trafficTime)
      ELSE DivSixty(DefaultTravelMinutes)

RECURSIVE FallbackSchedule(_, _, _, _)
\* the map over selectedAttractions, from position index with currentTime
FallbackSchedule(selected, traffic, index, currentTime) ==
  IF index > Len(selected) THEN <<>>
  ELSE
    LET attraction == selected[index]
        start == 60 * FloorHours(currentTime) + TruncMinutes(currentTime)
        visitDuration == VisitDuration(attraction)
        next == IF index < Len(selected)
                THEN AddDbl(currentTime,
                            AddDbl(DivSixty(visitDuration),
                                   FallbackTravel(traffic, attraction, selected[index + 1])))
                ELSE currentTime
    IN  <<Visit(attraction, <<>>, start, visitDuration, index, index)>>
          \o (CHOOSE rest \in {FallbackSchedule(selected, traffic, index + 1, time) :
                                 time \in {next}} : TRUE)

\* pa.attraction.estimatedVisitTime as a summand: undefined makes the sum NaN
CatalogVisitTime(v) == IF v.estimatedVisitTime = 0 THEN NaN ELSE v.estimatedVisitTime

\* realTimeData is the context handed to the fallback, traffic its traffic
\* field (NoMatrix when the field is missing).  weatherContext is the context
\* the plan reports its selection to be based on.
getDirectFallbackTripPlan(userText, availableAttractions, realTimeData, traffic) ==
  LET selected == FallbackSelection(userText, availableAttractions, realTimeData)
      planned  == FallbackSchedule(selected, traffic, 1, Dbl(9 * 60, 0))
  IN  [aiProvider |-> "Keyword Fallback",
       fields |-> FallbackFields,
       plannedStartTime |-> "Date",
       plannedAttractions |-> planned,
       hasTotalTime |-> TRUE,
       totalTime |-> SumOver(planned, CatalogVisitTime),
       totalCost |-> SumOver(planned, CostOf),
       weatherContext |-> realTimeData]


(***************************************************************************)
(* What the generator may send back.  The raw text is kept by what the     *)
(* pipeline reads from it: its form (which decides whether a brace         *)
(* delimited substring exists, whether reconstruction applies and whether  *)
(* the cleaned text deserializes), the item blocks it holds, the two       *)
(* aggregates, and the attraction names occurring in it.                   *)
(*   complete    a JSON object with selectedAttractions and both aggregates*)
(*   truncated   cut off inside selectedAttractions, no aggregates         *)
(*   garbled     braces and item blocks, but not valid JSON after cleaning *)
(*   proseBraces braces, no item block, not valid JSON                     *)
(*   prose       no brace-delimited substring, no selectedAttractions      *)
(*   empty       the empty string                                          *)
(* suggestedTime <<>>, duration 0, visitOrder 0 and name "" stand for a    *)
(* field that is missing from the item.                                    *)
(***************************************************************************)
Item(id, name, time, duration, visitOrder) ==
  [attractionId |-> id, name |-> name, suggestedTime |-> time,
   duration |-> duration, visitOrder |-> visitOrder]

Answer(form, items, totalDuration, estimatedCost, mentions) ==
  [form |-> form, items |-> items, totalDuration |-> totalDuration,
   estimatedCost |-> estimatedCost, mentions |-> mentions]

ItemTsim   == Item("tsim-sha-tsui", "Tsim Sha Tsui Promenade", <<9, 0>>, 90, 1)
ItemTemple == Item("temple-street", "Temple Street Night Market", <<11, 0>>, 0, 2)
ItemPeak   == Item("the-peak", "Victoria Peak", <<>>, 100, 0)
ItemLate   == Item("temple-street", "Temple Street Night Market", <<14, 30>>, 200, 3)
ItemGhost  == Item("ocean-park", "Ocean Park", <<>>, 60, 7)
ItemBare   == Item("the-peak", "", <<10, 0>>, 0, 0)
\* "suggestedTime": "25:00", and "duration": -30
ItemOdd    == Item("tsim-sha-tsui", "Tsim Sha Tsui Promenade", <<25, 0>>, 90, 1)
ItemNegative == Item("the-peak", "Victoria Peak", <<>>, -30, 2)
ItemBrief  == Item("the-peak", "Victoria Peak", <<>>, 95, 1)

AnswerTexts ==
  { Answer("complete", <<ItemTsim, ItemTemple, ItemPeak>>, 270, 800, {}),
    Answer("complete", <<ItemGhost, ItemTsim>>, 0, 0, {}),
    Answer("complete", <<ItemLate, ItemTsim, ItemTemple>>, 500, 0, {}),
    Answer("complete", <<>>, 270, 800, {}),
    Answer("complete", <<ItemOdd, ItemNegative>>, 0, 0, {}),
    Answer("complete", <<ItemBrief, ItemTemple, ItemTsim>>, 0, 0, {}),
    Answer("truncated", <<ItemTsim, ItemTemple>>, 0, 0, {}),
    Answer("truncated", <<ItemPeak, ItemLate>>, 0, 0, {}),
    Answer("garbled", <<ItemTsim, ItemGhost, ItemBare, ItemPeak>>, 270, 800, {}),
    Answer("garbled", <<ItemGhost>>, 0, 0, {"Star Ferry"}),
    Answer("proseBraces", <<>>, 0, 0, {"Victoria Peak", "Temple Street Night Market"}),
    Answer("proseBraces", <<>>, 0, 0, {}),
    Answer("prose", <<>>, 0, 0, {"Victoria Peak"}),
    Answer("empty", <<>>, 0, 0, {}) }

DurationOf(item) == item.duration

\* lines 405-516: brace match, reconstruction, cleaning, JSON.parse.
\* Reconstruction sums the "duration" numbers found, 270 when that is 0,
\* and derives the cost from the sum.
ParseAnswer(answer) ==
  IF answer.form = "complete"
  THEN [ok |-> TRUE, selectedAttractions |-> answer.items,
        totalDuration |-> answer.totalDuration,
        estimatedCost |-> answer.estimatedCost]
  ELSE IF answer.form = "truncated"
  THEN LET found == SumOver(answer.items, DurationOf)
           totalDuration == IF found # 0 THEN found ELSE 270
       IN  [ok |-> TRUE, selectedAttractions |-> answer.items,
            totalDuration |-> totalDuration,
            estimatedCost |-> IF totalDuration > 200 THEN 800 ELSE 600]
  ELSE [ok |-> FALSE, selectedAttractions |-> <<>>,
        totalDuration |-> 0, estimatedCost |-> 0]

\* aiResponse.match(/\{[\s\S]*\}/) or the reconstruction gave a candidate
HasJsonCandidate(answer) ==
  answer.form \in {"complete", "truncated", "garbled", "proseBraces"}

\* availableAttractions.find(a => a.id === id): its position, 0 for undefined
FindById(availableAttractions, id) ==
  LET hits == {i \in 1..Len(availableAttractions) : availableAttractions[i].id = id}
  IN  IF hits = {} THEN 0 ELSE CHOOSE i \in hits : \A j \in hits : i <= j

\* a selection that takes the generator at its word for an id it cannot find
SelectedAsNamed(availableAttractions, id) ==
  LET i == FindById(availableAttractions, id)
  IN  IF i # 0 THEN availableAttractions[i] ELSE Attraction(id, NoName, "", "", 0)

\* find(...) || availableAttractions[0]
SelectedAttraction(availableAttractions, id) ==
  LET i == FindById(availableAttractions, id)
  IN  IF i # 0 THEN availableAttractions[i] ELSE availableAttractions[1]

\* selected.duration || attraction.estimatedVisitTime || 120
ProcessDuration(selected, attraction) ==
  IF selected.duration # 0 THEN selected.duration
  ELSE IF attraction.estimatedVisitTime # 0 THEN attraction.estimatedVisitTime
  ELSE 120

\* travelTimeMinutes of processDirectTripPlan
ProcessTravel(trafficData, availableAttractions, attraction, nextId) ==
  LET n == FindById(availableAttractions, nextId)
      trafficTime == IF trafficData.present /\ n # 0
                     THEN getTrafficTime(trafficData, attraction.name,
                                         availableAttractions[n].name)
                     ELSE 0
  IN  IF trafficTime > 0 THEN trafficTime ELSE DefaultTravelMinutes

RECURSIVE ProcessSchedule(_, _, _, _, _)
\* the map over aiTripPlan.selectedAttractions
ProcessSchedule(items, availableAttractions, trafficData, index, currentTime) ==
  IF index > Len(items) THEN <<>>
  ELSE
    LET selected   == items[index]
        attraction == SelectedAttraction(availableAttractions, selected.attractionId)
        startStr   == IF index = 1
                      THEN IF selected.suggestedTime # <<>>
                           THEN selected.suggestedTime ELSE <<9, 0>>
                      ELSE <<FloorHours(currentTime), RoundMinutes(currentTime)>>
        now        == IF index = 1
                      THEN AddDbl(Dbl(60 * startStr[1], 0), DivSixty(startStr[2]))
                      ELSE currentTime
        duration   == ProcessDuration(selected, attraction)
        next       == IF index < Len(items)
                      THEN AddDbl(now,
                             AddDbl(DivSixty(duration),
                                    DivSixty(ProcessTravel(trafficData, availableAttractions,
                                               attraction, items[index + 1].attractionId))))
                      ELSE now
        order      == IF selected.visitOrder # 0 THEN selected.visitOrder ELSE index
    IN  <<Visit(attraction, startStr, 60 * startStr[1] + startStr[2], duration,
                order, order)>>
          \o (CHOOSE rest \in {ProcessSchedule(items, availableAttractions, trafficData,
                                                index + 1, time) : time \in {next}} : TRUE)

\* attraction is undefined for every item when the catalog is empty
ProcessThrows(aiTripPlan, availableAttractions) ==
  aiTripPlan.selectedAttractions # <<>> /\ availableAttractions = <<>>

VisitTimeOr120(v) == IF v.estimatedVisitTime # 0 THEN v.estimatedVisitTime ELSE 120

processDirectTripPlan(aiTripPlan, availableAttractions, trafficData) ==
  LET planned == ProcessSchedule(aiTripPlan.selectedAttractions, availableAttractions,
                                 trafficData, 1, Dbl(9 * 60, 0))
  IN  [aiProvider |-> "Local Llama 3.1",
       fields |-> ProcessFields,
       plannedStartTime |-> "HH:MM",
       plannedAttractions |-> planned,
       hasTotalTime |-> TRUE,
       totalTime |-> IF aiTripPlan.totalDuration # 0 THEN aiTripPlan.totalDuration
                     ELSE SumOver(planned, VisitTimeOr120),
       totalCost |-> IF aiTripPlan.estimatedCost # 0 THEN aiTripPlan.estimatedCost
                     ELSE SumOver(planned, CostOf),
       weatherContext |-> NoContext]


(***************************************************************************)
(* extractTripPlanFromText: item blocks anchored at "attractionId", then   *)
(* attraction names occurring in the text.                                 *)
(***************************************************************************)
\* the blocks of the raw text that hold an attractionId
ItemBlocks(answer) ==
  IF answer.form \in {"complete", "truncated", "garbled"} THEN answer.items ELSE <<>>

\* names occurring in the raw text: those written in item blocks and in prose
NamesIn(answer) ==
  answer.mentions \cup {ItemBlocks(answer)[i].name : i \in 1..Len(ItemBlocks(answer))}

Extracted(attraction, time, duration) ==
  [attraction |-> attraction, suggestedTime |-> time, duration |-> duration]

\* the loop over the blocks: an item is kept when it shows an id and a name
\* and the id is in the catalog
ExtractFromBlocks(answer, availableAttractions) ==
  LET blocks == ItemBlocks(answer)
      Kept(b) == b.name # "" /\ FindById(availableAttractions, b.attractionId) # 0
      kept == SelectSeq(blocks, Kept)
  IN  [i \in 1..Len(kept) |->
         LET a == availableAttractions[FindById(availableAttractions, kept[i].attractionId)]
         IN  Extracted(a,
                       IF kept[i].suggestedTime # <<>> THEN kept[i].suggestedTime
                       ELSE <<9, 0>>,
                       IF kept[i].duration > 0 THEN kept[i].duration   \* (\d+)
                       ELSE IF a.estimatedVisitTime # 0 THEN a.estimatedVisitTime
                       ELSE NaN)]

\* "Fallback to simple name matching"
ExtractFromNames(answer, availableAttractions) ==
  LET Mentioned(a) == a.name \in NamesIn(answer)
      mentioned == Slice(SelectSeq(availableAttractions, Mentioned), 4)
  IN  [i \in 1..Len(mentioned) |->
         Extracted(mentioned[i], <<9 + (i - 1) * 2, 0>>,
                   IF mentioned[i].estimatedVisitTime # 0
                   THEN mentioned[i].estimatedVisitTime ELSE NaN)]

\* the filter over names throws on an attraction without a name
NameMatchThrows(availableAttractions) ==
  \E i \in 1..Len(availableAttractions) : availableAttractions[i].name = NoName

ExtractedItems(answer, availableAttractions) ==
  LET fromBlocks == ExtractFromBlocks(answer, availableAttractions)
  IN  IF fromBlocks # <<>> THEN fromBlocks
      ELSE IF NameMatchThrows(availableAttractions) THEN <<>>
      ELSE ExtractFromNames(answer, availableAttractions)

\* ok = FALSE is the null the method returns
extractTripPlanFromText(answer, availableAttractions) ==
  LET items == ExtractedItems(answer, availableAttractions)
      planned == [i \in 1..Len(items) |->
                    Visit(items[i].attraction, items[i].suggestedTime,
                          60 * items[i].suggestedTime[1] + items[i].suggestedTime[2],
                          items[i].duration, i, i)]
  IN  [ok |-> items # <<>>,
       plan |-> [aiProvider |-> "Local Llama 3.1 (Text Extraction)",
                 fields |-> ExtractionFields,
                 plannedStartTime |-> "HH:MM",
                 plannedAttractions |-> planned,
                 hasTotalTime |-> FALSE,
                 totalTime |-> NaN,
                 totalCost |-> SumOver(planned, CostOf),
                 weatherContext |-> NoContext]]

(***************************************************************************)
(* The part of generateDirectTripPlan that runs once the generator has     *)
(* answered: lines 400-532.  thrown = TRUE is the throw into the catch     *)
(* block of line 534.                                                      *)
(***************************************************************************)
Thrown == [thrown |-> TRUE]
Returned(plan) == [thrown |-> FALSE, plan |-> plan]

HandleAnswer(answer, availableAttractions, trafficData) ==
  LET parsed == ParseAnswer(answer)
      extracted == extractTripPlanFromText(answer, availableAttractions)
  IN  IF ~HasJsonCandidate(answer) THEN Thrown
      ELSE IF parsed.ok /\ ~ProcessThrows(parsed, availableAttractions)
      THEN Returned(processDirectTripPlan(parsed, availableAttractions, trafficData))
      ELSE IF extracted.ok THEN Returned(extracted.plan)
      ELSE Thrown

\* a call of getDirectFallbackTripPlan with { ...realTimeData, traffic }
CallFallback(userText, availableAttractions, realTimeData, traffic) ==
  IF FallbackThrows(userText, availableAttractions, realTimeData) THEN Thrown
  ELSE Returned(getDirectFallbackTripPlan(userText, availableAttractions,
                                          realTimeData, traffic))


(***************************************************************************)
(* The generator's text.  A text is the sequence of its characters, with   *)
(* every maximal run of letters written as one element: no pattern of the  *)
(* service matches part of a word.  The patterns of the cleaning chain are *)
(* sequences of elements, each a character class with a minimum and a      *)
(* maximum count (-1: no maximum); in every pattern of the service the     *)
(* class that follows a repeated element is disjoint from it, so the       *)
(* longest run is the only run the JavaScript matcher can accept.          *)
(***************************************************************************)
Quote == "\""
Whitespace == {" ", "\n", "\t", "\r"}
DigitChars == <<"0", "1", "2", "3", "4", "5", "6", "7", "8", "9">>
Digit == {DigitChars[k] : k \in 1..Len(DigitChars)}

One(c) == [cls |-> {c}, min |-> 1, max |-> 1]
Str(chars) == [k \in 1..Len(chars) |-> One(chars[k])]
Rep(cls, min, max) == [cls |-> cls, min |-> min, max |-> max]
\* /.../ and /...$/
Pattern(elems) == [elems |-> elems, atEnd |-> FALSE]
PatternAtEnd(elems) == [elems |-> elems, atEnd |-> TRUE]
\* in a replacement: literal text, and the text matched by elements from..to
Lit(chars) == [from |-> 0, to |-> 0, text |-> chars]
Grp(from, to) == [from |-> from, to |-> to, text |-> <<>>]

RECURSIVE Span(_, _, _, _)
\* the length of the longest run of at most max characters of cls at s[i]
Span(s, i, cls, max) ==
  IF max = 0 \/ i > Len(s) THEN 0
  ELSE IF s[i] \notin cls THEN 0
  ELSE 1 + Span(s, i + 1, cls, IF max < 0 THEN max ELSE max - 1)

RECURSIVE MatchFrom(_, _, _, _)
\* where the elements k.. of the pattern start when they match at s[i], followed
\* by where the match ends; <<>> when they do not match there
MatchFrom(s, i, pat, k) ==
  IF k > Len(pat.elems)
    THEN IF pat.atEnd /\ i # Len(s) + 1 THEN <<>> ELSE <<i>>
    ELSE LET n == Span(s, i, pat.elems[k].cls, pat.elems[k].max)
         IN IF n < pat.elems[k].min THEN <<>>
            ELSE LET rest == MatchFrom(s, i + n, pat, k + 1)
                 IN IF rest = <<>> THEN <<>> ELSE <<i>> \o rest

RECURSIVE Expand(_, _, _, _)
\* the replacement text of a match with bounds b, from its k-th piece on
Expand(s, b, repl, k) ==
  IF k > Len(repl) THEN <<>>
  ELSE (IF repl[k].from = 0 THEN repl[k].text
        ELSE SubSeq(s, b[repl[k].from], b[repl[k].to + 1] - 1))
       \o Expand(s, b, repl, k + 1)

RECURSIVE Scan(_, _, _, _, _)
\* String.prototype.replace from position i on: with the g flag every match,
\* left to right, each search resuming where the last match ended
Scan(s, i, pat, repl, global) ==
  IF i > Len(s) THEN <<>>
  ELSE LET b == MatchFrom(s, i, pat, 1)
       IN IF b = <<>> THEN <<s[i]>> \o Scan(s, i + 1, pat, repl, global)
          ELSE Expand(s, b, repl, 1) \o
               (IF global THEN Scan(s, b[Len(b)], pat, repl, global)
                ELSE SubSeq(s, b[Len(b)], Len(s)))

Replace(s, pat, repl) == Scan(s, 1, pat, repl, FALSE)
ReplaceAll(s, pat, repl) == Scan(s, 1, pat, repl, TRUE)

RECURSIVE TrimStart(_)
TrimStart(s) == IF s # <<>> /\ Head(s) \in Whitespace THEN TrimStart(Tail(s)) ELSE s
RECURSIVE TrimEnd(_)
TrimEnd(s) ==
  IF s # <<>> /\ s[Len(s)] \in Whitespace THEN TrimEnd(SubSeq(s, 1, Len(s) - 1)) ELSE s
\* String.prototype.trim
TrimText(s) == TrimEnd(TrimStart(s))

\* String.prototype.includes of a word or a character
IncludesWord(s, w) == \E i \in 1..Len(s) : s[i] = w

RECURSIVE ParseInt(_, _)
\* parseInt of a run of digits, acc being the value of the digits read so far
ParseInt(digits, acc) ==
  IF digits = <<>> THEN acc
  ELSE ParseInt(Tail(digits),
                10 * acc + (CHOOSE v \in 0..9 : DigitChars[v + 1] = Head(digits)))

RECURSIVE NumberText(_)
\* a non-negative integer in a template literal
NumberText(n) ==
  IF n < 10 THEN <<DigitChars[n + 1]>>
  ELSE NumberText(n \div 10) \o <<DigitChars[(n % 10) + 1]>>

\* aiResponse.match(/\{[\s\S]*\}/): from the first opening brace to the last
\* closing brace after it; <<>> is null
JsonMatch(aiResponse) ==
  LET opens == {i \in 1..Len(aiResponse) : aiResponse[i] = "{"}
      closes == {j \in 1..Len(aiResponse) : aiResponse[j] = "}"}
  IN IF \E i \in opens, j \in closes : i < j
       THEN SubSeq(aiResponse,
                   CHOOSE i \in opens : \A o \in opens : i <= o,
                   CHOOSE j \in closes : \A c \in closes : c <= j)
       ELSE <<>>

\* /"selectedAttractions"\s*:\s*\[/, which [\s\S]* then extends to the end
AttractionsPattern ==
  Pattern(Str(<<Quote, "selectedAttractions", Quote>>) \o <<Rep(Whitespace, 0, -1), One(":"),
          Rep(Whitespace, 0, -1), One("[")>>)

\* aiResponse.match(/"selectedAttractions"\s*:\s*\[[\s\S]*/); <<>> is null
AttractionsMatch(aiResponse) ==
  LET starts == {i \in 1..Len(aiResponse) : MatchFrom(aiResponse, i, AttractionsPattern, 1) # <<>>}
  IN IF starts = {} THEN <<>>
     ELSE SubSeq(aiResponse, CHOOSE i \in starts : \A o \in starts : i <= o, Len(aiResponse))

\* closes an attractions array that has no closing bracket after its last
\* complete object
CloseArray(attractionsStr) ==
  LET braces == {i \in 1..Len(attractionsStr) : attractionsStr[i] = "}"}
  IN IF IncludesWord(attractionsStr, "]") \/ braces = {} THEN attractionsStr
     ELSE SubSeq(attractionsStr, 1, CHOOSE i \in braces : \A o \in braces : o <= i) \o <<"]">>

\* /"duration"\s*:\s*(\d+)/g
DurationPattern ==
  Pattern(Str(<<Quote, "duration", Quote>>) \o <<Rep(Whitespace, 0, -1), One(":"),
          Rep(Whitespace, 0, -1), Rep(Digit, 1, -1)>>)

RECURSIVE DurationSum(_, _)
\* the sum of the durations the pattern finds from position i on
DurationSum(attractionsStr, i) ==
  IF i > Len(attractionsStr) THEN 0
  ELSE LET b == MatchFrom(attractionsStr, i, DurationPattern, 1)
       IN IF b = <<>> THEN DurationSum(attractionsStr, i + 1)
          ELSE ParseInt(SubSeq(attractionsStr, b[7], b[8] - 1), 0)
               + DurationSum(attractionsStr, b[8])

DefaultTotalDuration == 270
LongDay == 200
CostOfLongDay == 800
CostOfShortDay == 600

\* `{${attractionsStr},"totalDuration":${totalDuration},"estimatedCost":${estimatedCost}}`
Reconstructed(attractionsStr) ==
  LET found == DurationSum(attractionsStr, 1)
      totalDuration == IF found = 0 THEN DefaultTotalDuration ELSE found
      estimatedCost == IF totalDuration > LongDay THEN CostOfLongDay ELSE CostOfShortDay
  IN <<"{">> \o attractionsStr
     \o <<",", Quote, "totalDuration", Quote, ":">> \o NumberText(totalDuration)
     \o <<",", Quote, "estimatedCost", Quote, ":">> \o NumberText(estimatedCost) \o <<"}">>

\* the candidate JSON substring of the generator's text: the braces match, or
\* the reconstruction when the match is missing or the totals are; <<>> is null
Candidate(aiResponse) ==
  LET jsonMatch == JsonMatch(aiResponse)
      attractionsMatch == AttractionsMatch(aiResponse)
  IN IF (jsonMatch = <<>> \/ ~IncludesWord(aiResponse, "totalDuration")
                          \/ ~IncludesWord(aiResponse, "estimatedCost"))
        /\ attractionsMatch # <<>>
       THEN Reconstructed(CloseArray(attractionsMatch))
       ELSE jsonMatch

\* '": '
KeyEnd == <<Quote, ":", " ">>
TrimStep == [kind |-> "trim", pat |-> Pattern(<<>>), repl |-> <<>>]
First(pat, repl) == [kind |-> "first", pat |-> pat, repl |-> repl]
All(pat, repl) == [kind |-> "all", pat |-> pat, repl |-> repl]
\* .replace(/<before>word<after>/g, '<before>number<after>')
Priced(before, word, after, number) ==
  All(Pattern(Str(before \o <<word>> \o after)), <<Lit(before \o number \o after)>>)
\* .replace(/<before>word$/g, '<before>number')
PricedAtEnd(before, word, number) ==
  All(PatternAtEnd(Str(before \o <<word>>)), <<Lit(before \o number)>>)
Low == <<"4", "0", "0">>
Medium == <<"8", "0", "0">>
High == <<"1", "5", "0", "0">>

\* the ordered chain of replacements
CleaningSteps == <<
  All(Pattern(<<One("\n"), Rep(Whitespace, 0, -1)>>), <<Lit(<<" ">>)>>),
  All(Pattern(<<Rep(Whitespace, 1, -1)>>), <<Lit(<<" ">>)>>),
  TrimStep,
  All(Pattern(<<One(","), Rep(Whitespace, 0, -1), Rep({"}", "]"}, 1, 1)>>), <<Grp(2, 3)>>),
  All(Pattern(<<One(":"), Rep(Whitespace, 1, -1), One(Quote)>>), <<Lit(<<":", " ", Quote>>)>>),
  All(Pattern(<<One(Quote), One(","), Rep(Whitespace, 1, -1)>>), <<Lit(<<Quote, ",", " ">>)>>),
  First(PatternAtEnd(<<One(","), Rep(Whitespace, 0, -1)>>), <<>>),
  First(PatternAtEnd(<<One("}"), Rep(Whitespace, 0, -1)>>), <<Lit(<<"}">>)>>),
  All(Pattern(Str(<<Quote, "null", ",", Quote>>)), <<Lit(<<"null">>)>>),
  All(Pattern(Str(KeyEnd \o <<Quote, "null", ",", Quote>>)), <<Lit(KeyEnd \o <<"null">>)>>),
  All(Pattern(Str(KeyEnd \o <<Quote>>) \o <<Rep(Digit, 1, 2), One(":"), Rep(Whitespace, 0, -1),
              One(Quote), Rep(Digit, 2, 2)>> \o Str(<<Quote, ",", Quote>>)),
      <<Lit(KeyEnd \o <<Quote>>), Grp(5, 5), Lit(<<":">>), Grp(9, 9), Lit(<<Quote>>)>>),
  All(Pattern(Str(KeyEnd \o <<Quote>>) \o <<Rep(Digit, 1, 2), One(":"), Rep(Whitespace, 0, -1),
              One(Quote), Rep(Digit, 2, 2), One(Quote)>>),
      <<Lit(KeyEnd \o <<Quote>>), Grp(5, 5), Lit(<<":">>), Grp(9, 9), Lit(<<Quote>>)>>),
  All(Pattern(Str(KeyEnd \o <<Quote>>) \o <<Rep(Digit, 1, -1), Rep(Whitespace, 0, -1),
              One("}"), One(Quote)>>),
      <<Lit(KeyEnd), Grp(5, 5), Lit(<<"}">>)>>),
  All(Pattern(Str(KeyEnd \o <<Quote>>) \o <<Rep(Digit, 1, -1), Rep(Whitespace, 0, -1),
              One(Quote), One(",")>>),
      <<Lit(KeyEnd), Grp(5, 5), Lit(<<",">>)>>),
  All(Pattern(Str(KeyEnd \o <<Quote>>) \o <<Rep(Digit, 1, -1), One(Quote)>>),
      <<Lit(KeyEnd), Grp(5, 5)>>),
  All(Pattern(Str(<<Quote, "visitOrder", Quote, ":", " ", Quote>>) \o
              <<Rep(Digit, 1, -1), One(","), One(Quote)>>),
      <<Lit(<<Quote, "visitOrder", Quote, ":", " ">>), Grp(7, 7)>>),
  All(Pattern(Str(KeyEnd \o <<Quote, "true", Quote>>)), <<Lit(KeyEnd \o <<"true">>)>>),
  All(Pattern(Str(KeyEnd \o <<Quote, "false", Quote>>)), <<Lit(KeyEnd \o <<"false">>)>>),
  All(Pattern(Str(KeyEnd \o <<Quote, "null", Quote>>)), <<Lit(KeyEnd \o <<"null">>)>>),
  Priced(KeyEnd, "low", <<",">>, Low),
  Priced(KeyEnd, "medium", <<",">>, Medium),
  Priced(KeyEnd, "high", <<",">>, High),
  PricedAtEnd(KeyEnd, "low", Low),
  PricedAtEnd(KeyEnd, "medium", Medium),
  PricedAtEnd(KeyEnd, "high", High),
  All(Pattern(Str(KeyEnd \o <<"low", Quote>>)), <<Lit(KeyEnd \o Low)>>),
  All(Pattern(Str(KeyEnd \o <<"medium", Quote>>)), <<Lit(KeyEnd \o Medium)>>),
  All(Pattern(Str(KeyEnd \o <<"high", Quote>>)), <<Lit(KeyEnd \o High)>>),
  Priced(<<":", " ">>, "low", <<",">>, Low),
  Priced(<<":", " ">>, "medium", <<",">>, Medium),
  Priced(<<":", " ">>, "high", <<",">>, High),
  PricedAtEnd(<<":", " ">>, "low", Low),
  PricedAtEnd(<<":", " ">>, "medium", Medium),
  PricedAtEnd(<<":", " ">>, "high", High),
  All(Pattern(<<Rep({Quote}, 2, -1)>>), <<Lit(<<Quote>>)>>),
  All(Pattern(<<One(Quote), Rep({","}, 1, -1)>>), <<Lit(<<Quote, ",">>)>>) >>

\* one call of .replace or .trim
ApplyStep(s, step) ==
  IF step.kind = "trim" THEN TrimText(s)
  ELSE IF step.kind = "first" THEN Replace(s, step.pat, step.repl)
  ELSE ReplaceAll(s, step.pat, step.repl)

RECURSIVE CleanRange(_, _, _)
\* the steps first..last of the chain applied in order
CleanRange(s, first, last) ==
  IF first = last THEN ApplyStep(s, CleaningSteps[first])
  ELSE LET middle == (first + last) \div 2
       IN CHOOSE out \in {CleanRange(t, middle + 1, last) :
                             t \in {CleanRange(s, first, middle)}} : TRUE

\* jsonStr after the cleaning chain
Cleaned(jsonStr) == CleanRange(jsonStr, 1, Len(CleaningSteps))

(***************************************************************************)
(* JSON.parse on texts of objects, arrays, strings without escapes,        *)
(* non-negative integers and the three literals.  A value is a record of   *)
(* its type, its text (string, number, literal) and its items (the         *)
(* elements of an array, the key-value pairs of an object).                *)
(***************************************************************************)
JsonValue(type, text, items) == [type |-> type, text |-> text, items |-> items]
NoValue == JsonValue("undefined", <<>>, <<>>)
SyntaxError == [ok |-> FALSE, pos |-> 0, value |-> NoValue]
Parsed(value, pos) == [ok |-> TRUE, pos |-> pos, value |-> value]
Literals == {"true", "false", "null"}

SkipWhitespace(s, i) == i + Span(s, i, Whitespace, -1)

\* a string: from the quote at s[i] to the next quote, no line break inside
ParseString(s, i) ==
  LET plain == ({s[k] : k \in 1..Len(s)} \ ({Quote, "\\"} \cup Whitespace)) \cup {" "}
      n == Span(s, i + 1, plain, -1)
  IN IF i + 1 + n <= Len(s) /\ s[i + 1 + n] = Quote
       THEN Parsed(JsonValue("string", SubSeq(s, i + 1, i + n), <<>>), i + n + 2)
       ELSE SyntaxError

\* a number: a single zero, or a run of digits that does not start with zero
ParseNumber(s, i) ==
  LET n == IF s[i] = "0" THEN 1 ELSE Span(s, i, Digit, -1)
  IN Parsed(JsonValue("number", SubSeq(s, i, i + n - 1), <<>>), i + n)

RECURSIVE ParseValue(_, _)
RECURSIVE ParseElements(_, _, _)
RECURSIVE ParseMembers(_, _, _)

ParseValue(s, from) ==
  LET i == SkipWhitespace(s, from)
  IN IF i > Len(s) THEN SyntaxError
     ELSE IF s[i] = Quote THEN ParseString(s, i)
     ELSE IF s[i] \in Digit THEN ParseNumber(s, i)
     ELSE IF s[i] \in Literals THEN Parsed(JsonValue(s[i], <<s[i]>>, <<>>), i + 1)
     ELSE IF s[i] = "["
       THEN LET j == SkipWhitespace(s, i + 1)
            IN IF j <= Len(s) /\ s[j] = "]" THEN Parsed(JsonValue("array", <<>>, <<>>), j + 1)
               ELSE ParseElements(s, i + 1, <<>>)
     ELSE IF s[i] = "{"
       THEN LET j == SkipWhitespace(s, i + 1)
            IN IF j <= Len(s) /\ s[j] = "}" THEN Parsed(JsonValue("object", <<>>, <<>>), j + 1)
               ELSE ParseMembers(s, i + 1, <<>>)
     ELSE SyntaxError

\* the elements of an array from s[from] on, after those in items
ParseElements(s, from, items) ==
  LET v == ParseValue(s, from)
      j == SkipWhitespace(s, v.pos)
  IN IF ~v.ok \/ j > Len(s) THEN SyntaxError
     ELSE IF s[j] = "," THEN ParseElements(s, j + 1, Append(items, v.value))
     ELSE IF s[j] = "]" THEN Parsed(JsonValue("array", <<>>, Append(items, v.value)), j + 1)
     ELSE SyntaxError

\* the members of an object from s[from] on, after those in items
ParseMembers(s, from, items) ==
  LET i == SkipWhitespace(s, from)
      key == IF i <= Len(s) /\ s[i] = Quote THEN ParseString(s, i) ELSE SyntaxError
      colon == SkipWhitespace(s, key.pos)
      v == IF key.ok /\ colon <= Len(s) /\ s[colon] = ":" THEN ParseValue(s, colon + 1)
           ELSE SyntaxError
      j == SkipWhitespace(s, v.pos)
      member == [key |-> key.value.text, value |-> v.value]
  IN IF ~v.ok \/ j > Len(s) THEN SyntaxError
     ELSE IF s[j] = "," THEN ParseMembers(s, j + 1, Append(items, member))
     ELSE IF s[j] = "}" THEN Parsed(JsonValue("object", <<>>, Append(items, member)), j + 1)
     ELSE SyntaxError

\* JSON.parse(jsonStr): the value, or a SyntaxError
JsonParse(jsonStr) ==
  LET v == ParseValue(jsonStr, 1)
  IN IF v.ok /\ SkipWhitespace(jsonStr, v.pos) = Len(jsonStr) + 1 THEN v ELSE SyntaxError

\* value[key] of a deserialized object (the last member of that name)
Member(value, key) ==
  LET at == {k \in 1..Len(value.items) : value.items[k].key = <<key>>}
  IN IF value.type # "object" \/ at = {} THEN NoValue
     ELSE value.items[CHOOSE k \in at : \A o \in at : o <= k].value

\* no generator text is under repair
NoCleaning ==
  [pc |-> "none", aiResponse |-> <<>>, jsonStr |-> <<>>, once |-> <<>>, tripPlan |-> SyntaxError]

(***************************************************************************)
(* The weather controller.  fetchHKOWeatherData asks the observatory for   *)
(* the current conditions, the warnings in force and the forecast, waits   *)
(* until the three calls have settled and builds one snapshot.  Readings   *)
(* are whole numbers, the UV index in tenths; Missing is a reading the     *)
(* payload does not carry.  The issue and expiry dates of an alert depend  *)
(* on the clock alone and are left out.                                    *)
(***************************************************************************)
Missing == -1
Pending == [status |-> "pending", null |-> TRUE]
\* a call that failed or timed out
Rejected == [status |-> "rejected", null |-> TRUE]
\* a fulfilled call whose body is null
NullBody == [status |-> "fulfilled", null |-> TRUE]

\* the body of the current-conditions answer
CurrentConditions(temperature, humidity, uvindex, icon, warningMessage) ==
  [status |-> "fulfilled", null |-> FALSE, temperature |-> temperature, humidity |-> humidity,
   uvindex |-> uvindex, icon |-> icon, warningMessage |-> warningMessage,
   updateTime |-> "2025-09-24T14:02:00+08:00"]

TyphoonMessage == "Tropical Cyclone Warning Signal No. 8 is in force"
ThunderstormMessage == "The Thunderstorm Warning is in force"
MessageInputs == {<<>>, <<ThunderstormMessage>>, <<"", TyphoonMessage>>}

CurrentAnswers ==
  {Rejected, NullBody} \cup
  {CurrentConditions(t, 80, uv, icon, messages) :
     t \in {Missing, 24}, uv \in {Missing, 0, 30}, icon \in {Missing, 62}, messages \in MessageInputs}

\* one entry of the warning summary
Warning(warningType, name, code, type, actionCode) ==
  [warningType |-> warningType, name |-> name, code |-> code, type |-> type,
   actionCode |-> actionCode]
TyphoonEight ==
  Warning("WTCSGNL", "Tropical Cyclone Warning Signal", "TC8NE",
          "No. 8 Northeast Gale or Storm Signal", "ISSUE")
RedRain == Warning("WRAIN", "Rainstorm Warning Signal", "WRAINR", "Red", "ISSUE")
FireDanger == Warning("WFIRE", "", "", "", "")
WarningSummary(entries) == [status |-> "fulfilled", null |-> FALSE, entries |-> entries]
WarningAnswers ==
  {Rejected, NullBody, WarningSummary(<<>>), WarningSummary(<<TyphoonEight>>),
   WarningSummary(<<RedRain, FireDanger>>)}

ForecastAnswers == {Rejected, [status |-> "fulfilled", null |-> FALSE]}

\* String.prototype.includes on the warning types, the signal names and the
\* first twenty characters of a message
PartOf ==
  {<<"TC", "WTCSGNL">>, <<"RAIN", "WRAIN">>, <<"8", "No. 8 Northeast Gale or Storm Signal">>,
   <<"Tropical Cyclone War", "Tropical Cyclone Warning Signal">>}
HasPart(text, part) == <<part, text>> \in PartOf
\* message.substring(0, 20)
FirstTwenty(message) ==
  IF message = TyphoonMessage THEN "Tropical Cyclone War"
  ELSE IF message = ThunderstormMessage THEN "The Thunderstorm War"
  ELSE message

\* value || fallback, for a reading
OrDefault(value, fallback) == IF value = Missing \/ value = 0 THEN fallback ELSE value
\* value || fallback, for a string
OrText(value, fallback) == IF value = "" THEN fallback ELSE value

FALLBACK_WEATHER ==
  [temperature |-> 26, humidity |-> 75, uvIndex |-> 62, weatherCondition |-> 53,
   icon |-> "partly-cloudy", timestamp |-> "startup", alerts |-> <<>>,
   updateTime |-> NoName]

getAlertType(warningType) ==
  IF HasPart(warningType, "TC") \/ warningType = "WTCSGNL" THEN "typhoon"
  ELSE IF HasPart(warningType, "RAIN") \/ warningType = "WRAIN" THEN "weather"
  ELSE IF HasPart(warningType, "WL") THEN "landslip"
  ELSE IF HasPart(warningType, "WFNT") THEN "flooding"
  ELSE "weather"

getAlertLevel(warningType, subType) ==
  IF HasPart(warningType, "TC") \/ warningType = "WTCSGNL"
    THEN IF subType # "" /\ (HasPart(subType, "8") \/ HasPart(subType, "9") \/ HasPart(subType, "10"))
           THEN "critical" ELSE "warning"
  ELSE IF HasPart(warningType, "RAIN") \/ warningType = "WRAIN"
    THEN IF subType = "Black" THEN "critical"
         ELSE IF subType = "Red" THEN "warning" ELSE "info"
  ELSE "warning"

\* `${baseMessage}${typeDetails}${actionDetails}`, as its three parts
getWarningMessage(warningType, warning) ==
  <<OrText(warning.name, warningType), warning.type, warning.actionCode>>

\* the alert of one entry of the warning summary
WarningAlert(warning) ==
  [id |-> OrText(warning.code, warning.warningType),
   type |-> getAlertType(warning.warningType),
   level |-> getAlertLevel(warning.warningType, warning.type),
   title |-> OrText(warning.name, warning.warningType),
   message |-> getWarningMessage(warning.warningType, warning)]

\* `msg_${index}`
AdvisoryIds == <<"msg_0", "msg_1">>
\* the advisory made of one warning message of the current conditions
Advisory(message, index) ==
  [id |-> AdvisoryIds[index + 1], type |-> "weather", level |-> "info",
   title |-> "Weather Advisory", message |-> <<message, "", "">>]

\* alert.message.includes(message.substring(0, 20))
Repeats(alert, message) ==
  \E k \in 1..Len(alert.message) :
     \/ alert.message[k] \in {message, FirstTwenty(message)}
     \/ HasPart(alert.message[k], FirstTwenty(message))

RECURSIVE AddAdvisories(_, _, _)
\* the second loop of parseHKOWarnings, from the k-th message on
AddAdvisories(alerts, warningMessages, k) ==
  IF k > Len(warningMessages) THEN alerts
  ELSE IF warningMessages[k] # "" /\ ~\E a \in 1..Len(alerts) : Repeats(alerts[a], warningMessages[k])
    THEN AddAdvisories(Append(alerts, Advisory(warningMessages[k], k - 1)), warningMessages, k + 1)
  ELSE AddAdvisories(alerts, warningMessages, k + 1)

\* the first loop of parseHKOWarnings
WarningAlerts(entries) == [k \in 1..Len(entries) |-> WarningAlert(entries[k])]

parseHKOWarnings(entries, warningMessages) ==
  AddAdvisories(WarningAlerts(entries), warningMessages, 1)

mapHKOIconToStandard(iconCode) ==
  IF iconCode = 50 THEN "sunny"
  ELSE IF iconCode \in {51, 52, 53} THEN "partly-cloudy"
  ELSE IF iconCode \in {54, 60, 76} THEN "cloudy"
  ELSE IF iconCode \in {61, 63} THEN "rainy"
  ELSE IF iconCode \in {62, 64} THEN "heavy-rain"
  ELSE IF iconCode = 65 THEN "thunderstorm"
  ELSE IF iconCode \in 70..75 THEN "foggy"
  ELSE IF iconCode = 77 THEN "overcast"
  ELSE "partly-cloudy"

\* the snapshot built from the current conditions and the warning entries
LiveSnapshot(currentData, entries) ==
  LET weatherIcon == OrDefault(currentData.icon, FALLBACK_WEATHER.weatherCondition)
      alerts == parseHKOWarnings(entries, currentData.warningMessage)
  IN [temperature |-> OrDefault(currentData.temperature, FALLBACK_WEATHER.temperature),
      humidity |-> OrDefault(currentData.humidity, FALLBACK_WEATHER.humidity),
      uvIndex |-> OrDefault(currentData.uvindex, FALLBACK_WEATHER.uvIndex),
      weatherCondition |-> weatherIcon,
      icon |-> IF \E a \in 1..Len(alerts) : alerts[a].type = "typhoon" THEN "typhoon"
               ELSE mapHKOIconToStandard(weatherIcon),
      timestamp |-> "now", alerts |-> alerts, updateTime |-> currentData.updateTime]

\* fetchHKOWeatherData once the three calls have settled: what it returns, and
\* whether the promise it returned was rejected
fetchHKOWeatherData(currentResponse, warningResponse, forecastResponse) ==
  IF currentResponse.status # "fulfilled" \/ currentResponse.null
    THEN [thrown |-> FALSE, snapshot |-> FALLBACK_WEATHER]
  ELSE IF warningResponse.status = "fulfilled" /\ warningResponse.null
    \* Object.keys(null) throws inside the try block
    THEN [thrown |-> FALSE, snapshot |-> FALLBACK_WEATHER]
  ELSE [thrown |-> FALSE,
        snapshot |-> LiveSnapshot(currentResponse,
                                  IF warningResponse.status = "fulfilled"
                                    THEN warningResponse.entries ELSE <<>>)]

\* no weather request is being served
NoWeather ==
  [pc |-> "none", currentResponse |-> Pending, warningResponse |-> Pending,
   forecastResponse |-> Pending, thrown |-> FALSE, snapshot |-> FALLBACK_WEATHER]

(***************************************************************************)
(* The server.  isAvailable and currentRequest are the fields of the one   *)
(* LocalAIService instance; now is Date.now(); attractions and             *)
(* realTimeData are what the client application puts in the body of its    *)
(* requests; req[r] holds the locals of the r-th call of the handler       *)
(* (requests are numbered in arrival order); response is the HTTP response *)
(* sent by the step just taken; load is the number of requests the         *)
(* clients send in this run and texts the request texts they choose from.  *)
(* cleaning holds the locals of the repair of one generator text, weather  *)
(* those of one call of the weather controller.                            *)
(***************************************************************************)
VARIABLES isAvailable, currentRequest, now, attractions, realTimeData, load, texts,
          req, response, cleaning, weather, endpoint

vars == <<isAvailable, currentRequest, now, attractions, realTimeData, load, texts,
          req, response, cleaning, weather, endpoint>>

Texts == {TextCulturalLunch, TextNatureAdults, TextNatureKids, TextShort}
BurstTexts == {TextCulturalLunch, TextNatureAdults}
PairTexts == {TextNatureAdults, TextNatureKids}

NoKey == <<>>
\* `${userText.substring(0, 50)}-${Date.now()}`
RequestKey(userText, time) == <<Substring50(userText), time>>

\* a service that never recognises a request as a duplicate
NeverDuplicate(current, requestKey) == FALSE

\* this.currentRequest === requestKey
IsDuplicate(current, requestKey) == current = requestKey

(***************************************************************************)
(* Responses.  A success carries the plan and, for the record, why the     *)
(* plan was built the way it was (cause: "none" when it was built from the *)
(* generator's text, else what sent the call to the rule-based fallback)   *)
(* and the matrix the call had last fetched when it returned.  A server    *)
(* error is for the record marked with the cause too.                      *)
(***************************************************************************)
NoResponse == [status |-> 0]
Success(plan, cause, fetched) ==
  [status |-> 200, data |-> plan, cause |-> cause, fetched |-> fetched]
BadRequest == [status |-> 400]
ServerError(cause) == [status |-> 500, cause |-> cause]

\* cause: why the call is headed for the catch block ("" while it is not);
\* twinGenerating, twinInFlight: whether, when the call began, another call
\* with the same key had its generator call outstanding, was still running;
\* queries: how many times the call has awaited getTrafficMatrix so far;
\* prompted: the matrix written into the prompt, if one was built
Idle == [pc |-> "idle", userText |-> "", requestKey |-> NoKey, trafficData |-> NoMatrix,
         duplicate |-> FALSE, cause |-> "",
         twinGenerating |-> FALSE, twinInFlight |-> FALSE,
         queries |-> 0, prompted |-> NoMatrix]

InFlight == {"trafficUnavailable", "trafficAvailable", "generate", "trafficCatch"}

\* the locals of a call are gone once it has returned; its key, whether it was
\* short-circuited and, if so, whether a call with its key was then running
\* are kept for the record
Finished(call) == [Idle EXCEPT !.pc = "done", !.requestKey = call.requestKey,
                               !.duplicate = call.duplicate,
                               !.twinInFlight = call.duplicate /\ call.twinInFlight]

\* const availableAttractions = attractions || [ ...mock data... ]
Catalog == IF attractions.given THEN attractions.list ELSE DefaultCatalog

\* the routes the provider can report for a catalog: between attractions of it
RoutesFor(matrix, catalog) ==
  LET names == {catalog[i].name : i \in 1..Len(catalog)} \ {NoName}
      Known(route) == route.from \in names /\ route.to \in names
  IN  IF matrix.present /\ catalog # <<>>
      THEN Matrix(SelectSeq(matrix.routes, Known))
      ELSE NoMatrix

\* the generator's endpoint as the probes see it: whether GET /api/tags is
\* answered with the model in its list, and whether the probe issued by the
\* constructor is still outstanding.  Only ProbeSpec moves it.
NoEndpoint == [reachable |-> FALSE, startup |-> "none"]

Start ==
  /\ isAvailable = FALSE
  /\ currentRequest = NoKey
  /\ now = 0
  /\ req = [r \in Requests |-> Idle]
  /\ response = NoResponse

\* a burst of requests of a client whose catalog is empty
InitBurst ==
  /\ Start
  /\ cleaning = NoCleaning
  /\ weather = NoWeather
  /\ endpoint = NoEndpoint
  /\ load = MaxRequests
  /\ texts = BurstTexts
  /\ attractions = Given(<<>>)
  /\ realTimeData = NoContext

\* fewer requests, of a client that sends no catalog, with texts that agree on
\* their first fifty characters
InitPair ==
  /\ Start
  /\ cleaning = NoCleaning
  /\ weather = NoWeather
  /\ endpoint = NoEndpoint
  /\ load = MaxRequests - 1
  /\ texts = PairTexts
  /\ attractions = NoCatalog
  /\ realTimeData \in ContextInputs \ {NoContext}

\* one request, with every text, catalog and context
InitSingle ==
  /\ Start
  /\ cleaning = NoCleaning
  /\ weather = NoWeather
  /\ endpoint = NoEndpoint
  /\ load = 1
  /\ texts = Texts
  /\ attractions \in CatalogInputs
  /\ realTimeData \in ContextInputs

Init == InitBurst \/ InitPair \/ InitSingle

\* one request of a client whose catalog has at most one attraction
InitShort == InitSingle /\ Len(attractions.list) <= 1 /\ attractions.given

\* the request that arrives next
Arriving(r) == r <= load /\ req[r].pc = "idle" /\ \A q \in Requests : q < r => req[q].pc # "idle"

\* what the controller sends when the call ends in the rule-based fallback
Respond(outcome, cause, fetched) ==
  IF outcome.thrown THEN ServerError(cause) ELSE Success(outcome.plan, cause, fetched)

\* why the generator's answer sent the call to the catch block
CauseOf(answer) == IF answer.form = "empty" THEN "empty" ELSE "invalid"

\* POST /direct-plan with a text that fails validation
Reject(r, text) ==
  /\ Arriving(r)
  /\ TrimLength(text) < 10
  /\ req' = [req EXCEPT ![r] = Finished(Idle)]
  /\ response' = BadRequest
  /\ UNCHANGED <<isAvailable, currentRequest, now, attractions, realTimeData, load, texts, cleaning, weather, endpoint>>

\* POST /direct-plan up to the first await of generateDirectTripPlan
Arrive(r, text) ==
  /\ Arriving(r)
  /\ TrimLength(text) >= 10
  /\ LET userText == Trim(text)
         requestKey == RequestKey(userText, now)
         Twin(q) == q # r /\ req[q].requestKey = requestKey
         call == [Idle EXCEPT !.userText = userText, !.requestKey = requestKey,
                    !.twinGenerating = \E q \in Requests : Twin(q) /\ req[q].pc = "generate",
                    !.twinInFlight = \E q \in Requests : Twin(q) /\ req[q].pc \in InFlight]
     IN  IF IsDuplicate(currentRequest, requestKey)
         THEN /\ req' = [req EXCEPT ![r] = Finished([call EXCEPT !.duplicate = TRUE])]
              /\ response' = Respond(CallFallback(userText, Catalog, realTimeData, NoMatrix),
                                     "duplicate", NoMatrix)
              /\ UNCHANGED currentRequest
         ELSE /\ currentRequest' = requestKey
              /\ req' = [req EXCEPT ![r] =
                   [call EXCEPT !.pc = IF isAvailable THEN "trafficAvailable"
                                       ELSE "trafficUnavailable"]]
              /\ response' = NoResponse
  /\ UNCHANGED <<isAvailable, now, attractions, realTimeData, load, texts, cleaning, weather, endpoint>>

\* lines 368-374: the generator is flagged unavailable, getTrafficMatrix resolves
FallbackUnavailable(r, matrix) ==
  /\ req[r].pc = "trafficUnavailable"
  /\ \E outcome \in {CallFallback(req[r].userText, Catalog, realTimeData,
                                      RoutesFor(matrix, Catalog))} :
         IF outcome.thrown
         THEN /\ req' = [req EXCEPT ![r].pc = "trafficCatch", ![r].cause = "threw",
                                    ![r].queries = 1]
              /\ response' = NoResponse
         ELSE /\ req' = [req EXCEPT ![r] = Finished(req[r])]
              /\ response' = Success(outcome.plan, "unavailable", RoutesFor(matrix, Catalog))
  /\ UNCHANGED <<isAvailable, currentRequest, now, attractions, realTimeData, load, texts, cleaning, weather, endpoint>>

\* lines 376-398: getTrafficMatrix resolves, the prompt is built, axios.post is issued
CallGenerator(r, matrix) ==
  /\ req[r].pc = "trafficAvailable"
  /\ req' = [req EXCEPT ![r].pc = "generate",
                        ![r].trafficData = RoutesFor(matrix, Catalog),
                        ![r].queries = 1,
                        ![r].prompted = RoutesFor(matrix, Catalog)]
  /\ response' = NoResponse
  /\ UNCHANGED <<isAvailable, currentRequest, now, attractions, realTimeData, load, texts, cleaning, weather, endpoint>>

\* lines 400-532: the generator answers with some text
GeneratorReplies(r, answer) ==
  /\ req[r].pc = "generate"
  /\ \E outcome \in {HandleAnswer(answer, Catalog, req[r].trafficData)} :
         IF outcome.thrown
         THEN /\ req' = [req EXCEPT ![r].pc = "trafficCatch", ![r].cause = CauseOf(answer),
                                    ![r].trafficData = NoMatrix]
              /\ response' = NoResponse
         ELSE /\ req' = [req EXCEPT ![r] = Finished(req[r])]
              /\ response' = Success(outcome.plan, "none", req[r].trafficData)
  /\ UNCHANGED <<isAvailable, currentRequest, now, attractions, realTimeData, load, texts, cleaning, weather, endpoint>>

\* axios.post rejects: connection refused, HTTP error
GeneratorFails(r) ==
  /\ req[r].pc = "generate"
  /\ req' = [req EXCEPT ![r].pc = "trafficCatch", ![r].cause = "error",
                        ![r].trafficData = NoMatrix]
  /\ response' = NoResponse
  /\ UNCHANGED <<isAvailable, currentRequest, now, attractions, realTimeData, load, texts, cleaning, weather, endpoint>>

\* lines 534-540: the catch block, once its getTrafficMatrix has resolved
CatchFallback(r, matrix) ==
  /\ req[r].pc = "trafficCatch"
  /\ req' = [req EXCEPT ![r] = Finished(req[r])]
  /\ response' = Respond(CallFallback(req[r].userText, Catalog, realTimeData,
                                         RoutesFor(matrix, Catalog)),
                         req[r].cause, RoutesFor(matrix, Catalog))
  /\ UNCHANGED <<isAvailable, currentRequest, now, attractions, realTimeData, load, texts, cleaning, weather, endpoint>>

\* checkOllamaAvailability completes (at startup, and on every status request)
Probe(found) ==
  /\ isAvailable' = found
  /\ response' = NoResponse
  /\ UNCHANGED <<currentRequest, now, attractions, realTimeData, load, texts, cleaning, weather, endpoint, req>>

\* a millisecond passes
Tick ==
  /\ now < MaxClock
  /\ now' = now + 1
  /\ response' = NoResponse
  /\ UNCHANGED <<isAvailable, currentRequest, attractions, realTimeData, load, texts, cleaning, weather, endpoint, req>>

Next ==
  \/ \E r \in Requests, text \in texts : Reject(r, text)
  \/ \E r \in Requests, text \in texts : Arrive(r, text)
  \/ \E r \in Requests, matrix \in TrafficAnswers : FallbackUnavailable(r, matrix)
  \/ \E r \in Requests, matrix \in TrafficAnswers : CallGenerator(r, matrix)
  \/ \E r \in Requests, answer \in AnswerTexts : GeneratorReplies(r, answer)
  \/ \E r \in Requests : GeneratorFails(r)
  \/ \E r \in Requests, matrix \in TrafficAnswers : CatchFallback(r, matrix)
  \/ \E found \in BOOLEAN : Probe(found)
  \/ Tick

Spec == Init /\ [][Next]_vars

\* the steps of a call that depend on nothing but the server itself and the
\* travel-time provider, whose client gives up after its own timeout and
\* resolves to null (trafficService)
ServerStep(r) ==
  \/ \E matrix \in TrafficAnswers : FallbackUnavailable(r, matrix)
  \/ \E matrix \in TrafficAnswers : CallGenerator(r, matrix)
  \/ \E matrix \in TrafficAnswers : CatchFallback(r, matrix)

\* The event loop runs every continuation that is ready.  Nothing obliges the
\* generator to answer or to refuse: the call to it is made without a timeout.
FairSpec == InitShort /\ [][Next]_vars /\ \A r \in Requests : WF_vars(ServerStep(r))

(***************************************************************************)
(* The repair of one generator text, step by step: the candidate JSON      *)
(* substring is found or reconstructed, cleaned by the chain and handed to *)
(* JSON.parse.  CleanAgain applies the chain to its own output.            *)
(***************************************************************************)
MaxText == 3
TextWords == {"low"}
TextAlphabet == {",", Quote, " ", ":", "]", "1"} \cup TextWords
\* the texts of at most MaxText elements (two words side by side are one word)
ShortTexts ==
  {w \in UNION {[1..n -> TextAlphabet] : n \in 0..MaxText} :
     \A k \in 1..(Len(w) - 1) : ~(w[k] \in TextWords /\ w[k + 1] \in TextWords)}

\* {"selectedAttractions":[{"attractionId":"a1","name":"X","visitOrder":1,
\*  "suggestedTime":"09: "00"","duration":"120}]
MalformedText ==
  <<"{", Quote, "selectedAttractions", Quote, ":", "[", "{",
    Quote, "attractionId", Quote, ":", Quote, "a", "1", Quote, ",",
    Quote, "name", Quote, ":", Quote, "X", Quote, ",",
    Quote, "visitOrder", Quote, ":", "1", ",",
    Quote, "suggestedTime", Quote, ":", Quote, "0", "9", ":", " ", Quote, "0", "0", Quote, Quote, ",",
    Quote, "duration", Quote, ":", Quote, "1", "2", "0", "}", "]">>

\* the same faults after a colon and a space, as the patterns expect them:
\* {"selectedAttractions": [{"attractionId": "a1", "suggestedTime": "09: "00"",
\*  "duration": "120"}], "totalDuration": 120, "estimatedCost": low, "ok": true}
SpacedText ==
  <<"{", Quote, "selectedAttractions", Quote, ":", " ", "[", "{",
    Quote, "attractionId", Quote, ":", " ", Quote, "a", "1", Quote, ",", " ",
    Quote, "suggestedTime", Quote, ":", " ", Quote, "0", "9", ":", " ", Quote, "0", "0", Quote, Quote, ",", " ",
    Quote, "duration", Quote, ":", " ", Quote, "1", "2", "0", Quote, "}", "]", ",", " ",
    Quote, "totalDuration", Quote, ":", " ", "1", "2", "0", ",", " ",
    Quote, "estimatedCost", Quote, ":", " ", "low", ",", " ",
    Quote, "ok", Quote, ":", " ", "true", "}">>

\* a text without braces
ProseText == <<"Sorry", ",", " ", "no", " ", "plan">>

ResponseTexts ==
  {MalformedText, SpacedText, ProseText} \cup {<<"{">> \o w \o <<"}">> : w \in ShortTexts}

CleaningInit ==
  /\ Start
  /\ load = 0
  /\ texts = {}
  /\ attractions = NoCatalog
  /\ realTimeData = NoContext
  /\ \E text \in ResponseTexts :
       cleaning = [NoCleaning EXCEPT !.pc = "received", !.aiResponse = text]
  /\ weather = NoWeather
  /\ endpoint = NoEndpoint

server == <<isAvailable, currentRequest, now, attractions, realTimeData, load, texts,
            req, response>>

\* the braces match, or the reconstruction
FindCandidate ==
  /\ cleaning.pc = "received"
  /\ cleaning' = [cleaning EXCEPT !.jsonStr = Candidate(cleaning.aiResponse),
                                  !.pc = IF Candidate(cleaning.aiResponse) = <<>>
                                           THEN "noJson" ELSE "candidate"]
  /\ UNCHANGED <<server, weather, endpoint>>

\* the cleaning chain
Clean ==
  /\ cleaning.pc = "candidate"
  /\ cleaning' = [cleaning EXCEPT !.jsonStr = Cleaned(cleaning.jsonStr),
                                  !.once = Cleaned(cleaning.jsonStr),
                                  !.pc = "cleaned"]
  /\ UNCHANGED <<server, weather, endpoint>>

\* JSON.parse(jsonStr)
Deserialize ==
  /\ cleaning.pc = "cleaned"
  /\ cleaning' = [cleaning EXCEPT !.tripPlan = JsonParse(cleaning.jsonStr),
                                  !.pc = "deserialized"]
  /\ UNCHANGED <<server, weather, endpoint>>

\* the cleaning chain once more, on the cleaned text
CleanAgain ==
  /\ cleaning.pc = "cleaned"
  /\ cleaning' = [cleaning EXCEPT !.jsonStr = Cleaned(cleaning.jsonStr),
                                  !.pc = "recleaned"]
  /\ UNCHANGED <<server, weather, endpoint>>

CleaningNext == FindCandidate \/ Clean \/ Deserialize \/ CleanAgain

CleaningSpec == CleaningInit /\ [][CleaningNext]_vars

(***************************************************************************)
(* GET /current: the three calls are made together and settle in any       *)
(* order; the snapshot is built when all three have settled.               *)
(***************************************************************************)
WeatherInit ==
  /\ Start
  /\ load = 0
  /\ texts = {}
  /\ attractions = NoCatalog
  /\ realTimeData = NoContext
  /\ cleaning = NoCleaning
  /\ weather = [NoWeather EXCEPT !.pc = "fetching"]
  /\ endpoint = NoEndpoint

CurrentSettles(answer) ==
  /\ weather.pc = "fetching"
  /\ weather.currentResponse.status = "pending"
  /\ weather' = [weather EXCEPT !.currentResponse = answer]
  /\ UNCHANGED <<server, cleaning, endpoint>>

WarningSettles(answer) ==
  /\ weather.pc = "fetching"
  /\ weather.warningResponse.status = "pending"
  /\ weather' = [weather EXCEPT !.warningResponse = answer]
  /\ UNCHANGED <<server, cleaning, endpoint>>

ForecastSettles(answer) ==
  /\ weather.pc = "fetching"
  /\ weather.forecastResponse.status = "pending"
  /\ weather' = [weather EXCEPT !.forecastResponse = answer]
  /\ UNCHANGED <<server, cleaning, endpoint>>

\* Promise.allSettled resolves and the function runs to its return
ReturnSnapshot ==
  /\ weather.pc = "fetching"
  /\ weather.currentResponse.status # "pending"
  /\ weather.warningResponse.status # "pending"
  /\ weather.forecastResponse.status # "pending"
  /\ LET result == fetchHKOWeatherData(weather.currentResponse, weather.warningResponse,
                                       weather.forecastResponse)
     IN weather' = [weather EXCEPT !.pc = "returned", !.thrown = result.thrown,
                                   !.snapshot = result.snapshot]
  /\ UNCHANGED <<server, cleaning, endpoint>>

WeatherNext ==
  \/ \E answer \in CurrentAnswers : CurrentSettles(answer)
  \/ \E answer \in WarningAnswers : WarningSettles(answer)
  \/ \E answer \in ForecastAnswers : ForecastSettles(answer)
  \/ ReturnSnapshot

WeatherSpec == WeatherInit /\ [][WeatherNext]_vars

(***************************************************************************)
(* The availability flag over the life of the server.  The constructor     *)
(* sets isAvailable to false and issues checkOllamaAvailability without    *)
(* awaiting it; the only other caller is getStatus.  The endpoint comes up *)
(* and goes down as it pleases; requests keep arriving, one after the      *)
(* other has returned.                                                     *)
(***************************************************************************)
ProbeInit ==
  /\ Start
  /\ cleaning = NoCleaning
  /\ weather = NoWeather
  /\ load = 1
  /\ texts = Texts
  /\ attractions \in {Given(<<>>), Given(<<TsimShaTsui>>)}
  /\ realTimeData = NoContext
  /\ \E up \in BOOLEAN : endpoint = [reachable |-> up, startup |-> "pending"]

untouched == <<currentRequest, now, attractions, realTimeData, load, texts, cleaning,
               weather, req>>

\* the generator is started, or its model is pulled
EndpointUp ==
  /\ ~endpoint.reachable
  /\ endpoint' = [endpoint EXCEPT !.reachable = TRUE]
  /\ response' = NoResponse
  /\ UNCHANGED <<isAvailable, untouched>>

\* the generator is stopped
EndpointDown ==
  /\ endpoint.reachable
  /\ endpoint' = [endpoint EXCEPT !.reachable = FALSE]
  /\ response' = NoResponse
  /\ UNCHANGED <<isAvailable, untouched>>

\* the checkOllamaAvailability of the constructor completes
StartupProbe ==
  /\ endpoint.startup = "pending"
  /\ isAvailable' = endpoint.reachable
  /\ endpoint' = [endpoint EXCEPT !.startup = "done"]
  /\ response' = NoResponse
  /\ UNCHANGED untouched

\* somebody asks for the status: getStatus awaits checkOllamaAvailability
StatusProbe ==
  /\ isAvailable' = endpoint.reachable
  /\ response' = NoResponse
  /\ UNCHANGED <<endpoint, untouched>>

\* a reachable generator answers the call
Answers(r) == endpoint.reachable /\ \E answer \in AnswerTexts : GeneratorReplies(r, answer)

\* an unreachable one refuses the connection
Refuses(r) == ~endpoint.reachable /\ GeneratorFails(r)

\* the client sends its next request, at a later millisecond: the key kept in
\* currentRequest is that of an earlier one and equals no key formed from now on
Again(r) ==
  /\ req[r].pc = "done"
  /\ req' = [req EXCEPT ![r] = Idle]
  /\ currentRequest' = NoKey
  /\ response' = NoResponse
  /\ UNCHANGED <<isAvailable, now, attractions, realTimeData, load, texts, cleaning,
                 weather, endpoint>>

\* a request that passes validation, and one that does not
Arrives(r) == \E text \in texts : Arrive(r, text)
Refused(r) == \E text \in texts : Reject(r, text)

ProbeNext ==
  \/ EndpointUp
  \/ EndpointDown
  \/ StartupProbe
  \/ StatusProbe
  \/ \E r \in Requests : Arrives(r)
  \/ \E r \in Requests : Refused(r)
  \/ \E r \in Requests : ServerStep(r)
  \/ \E r \in Requests : Answers(r)
  \/ \E r \in Requests : Refuses(r)
  \/ \E r \in Requests : Again(r)

\* Every pending continuation runs, the reachable generator answers, and the
\* client keeps asking for plans, valid ones again and again.  Nobody is
\* obliged to ask for the status.
ProbeSpec ==
  /\ ProbeInit /\ [][ProbeNext]_vars
  /\ WF_vars(StartupProbe)
  /\ \A r \in Requests :
        /\ WF_vars(ServerStep(r)) /\ WF_vars(Answers(r)) /\ WF_vars(Refuses(r))
        /\ WF_vars(Again(r)) /\ SF_vars(Arrives(r))

(***************************************************************************)
(* Properties of the returned itineraries.                                 *)
(***************************************************************************)
\* the itinerary of the response just sent, empty when none was sent
Itinerary == IF response.status = 200 THEN response.data.plannedAttractions ELSE <<>>

\* the matrix value when a positive one exists, 90 minutes otherwise
TravelTime(matrix, from, to) ==
  IF getTrafficTime(matrix, from, to) > 0
  THEN getTrafficTime(matrix, from, to)
  ELSE DefaultTravelMinutes

\* visit i+1 starts no earlier than visit i ends plus the travel between them
LeavesTravelTime(visits, matrix, i) ==
  (visits[i].end # NaN /\ visits[i + 1].start # NaN) =>
     visits[i + 1].start >= visits[i].end + TravelTime(matrix, visits[i].name, visits[i + 1].name)

\* C1: in every itinerary returned, whatever its provenance, each visit
\* starts no earlier than the end of the visit before it plus the travel time
\* between the two (the matrix value when positive, else 90 minutes).
\* The code breaks this: the text-extraction path schedules visits at fixed
\* or generator-given times and adds no travel time.
C1_ConsecutiveVisitsLeaveTravelTime ==
  \A i \in 1..(Len(Itinerary) - 1) : LeavesTravelTime(Itinerary, response.fetched, i)

\* C2: with a generator that never answers, every accepted request still
\* ends, with a rule-based fallback itinerary: no call waits on the generator
\* forever.
\* The code breaks this: axios.post to the generator is given no timeout, so
\* a call whose generator never answers stays at the await for good.
C2_GeneratorCallIsBounded ==
  \A r \in Requests : (req[r].pc = "generate") ~> (req[r].pc = "done")

\* the reasons for which a call goes to the rule-based fallback that are the
\* generator's: flagged unavailable (with or without a first failed attempt at
\* the fallback), call failed, empty text
GeneratorOut == {"unavailable", "threw", "error", "empty"}

\* C3: whenever the generator is flagged unavailable, its call fails or it
\* returns empty text, the call returns a rule-based fallback itinerary
\* ('Keyword Fallback') computed with the weather and alert data the caller
\* supplied, and no error leaves generateDirectTripPlan.
\* The code breaks the last part: the fallback itself throws on a catalog
\* entry without a name when the text asks for culture and food, and the
\* catch block, which calls the fallback again, lets that error through.
C3_GeneratorOutGivesFallback ==
  (response.status # 0 /\ response.status # 400 /\ response.cause \in GeneratorOut) =>
     /\ response.status = 200
     /\ response.data.aiProvider = "Keyword Fallback"
     /\ response.data.weatherContext = realTimeData

\* C4: every request with a text of at least 10 characters after trimming
\* gets a success response with an itinerary, whatever the generator and the
\* travel-time provider do and whatever catalog and context the caller
\* sent: the 500 response is never produced.
\* The code breaks this: an error thrown by the fallback in the catch block
\* reaches the controller, which answers 500.
C4_NoServerError == response.status # 500

\* C5: a request that arrives while another request with the same key has
\* its generator call outstanding issues no generator call of its own, even
\* when requests with other keys arrived in between.
\* The code breaks this: currentRequest remembers one key only, that of the
\* latest request, so a request with another key in between makes the
\* service forget the key whose generator call is still outstanding.
C5_NoSecondGeneratorCall ==
  \A r \in Requests : ~(req[r].twinGenerating /\ req[r].pc = "generate")

\* C6: once a request's generator call has resolved, failed or been
\* short-circuited, the marker no longer holds its key: a later request with
\* the same key that arrives after the earlier one completed is not treated
\* as a duplicate.
\* The code breaks this: currentRequest is assigned on arrival and never
\* cleared, so a request is short-circuited although no call with its key is
\* running any more.
C6_DuplicateOnlyOfRunningCall ==
  \A r \in Requests : req[r].duplicate => req[r].twinInFlight

\* the request passed the duplicate check
Passed(r) == req[r].pc # "idle" /\ req[r].requestKey # NoKey /\ ~req[r].duplicate

\* C7: the marker's check and set are one atomic step: of two requests with
\* the same key that arrive back to back, with no other request between them,
\* at most one passes the duplicate check and reaches the generator.
C7_BackToBackTwinsDoNotBothPass ==
  \A r \in Requests : \A q \in Requests :
     (q = r + 1 /\ req[r].requestKey = req[q].requestKey) => ~(Passed(r) /\ Passed(q))

\* two requests with the same key arrived back to back: the first has its
\* generator call outstanding, the second was short-circuited
C7_Witness ==
  \E r \in Requests : \E q \in Requests :
     /\ q = r + 1
     /\ req[r].pc = "generate"
     /\ req[q].pc = "done" /\ req[q].duplicate
     /\ req[q].requestKey = req[r].requestKey

CatalogIds == {Catalog[i].id : i \in 1..Len(Catalog)}

\* C8: every attraction identifier in a returned itinerary, on every path, is
\* the identifier of an attraction of the catalog of the request, also when
\* the generator names identifiers that are not in the catalog.
C8_IdentifiersAreFromCatalog ==
  \A i \in 1..Len(Itinerary) : Itinerary[i].id \in CatalogIds

\* an itinerary built from a parsed answer whose first item named an
\* identifier outside the catalog (its visitOrder, 7, is the visit's priority)
C8_Witness ==
  /\ response.status = 200
  /\ response.data.aiProvider = "Local Llama 3.1"
  /\ Len(Itinerary) = 2
  /\ Itinerary[1].priority = ItemGhost.visitOrder
  /\ ItemGhost.attractionId \notin CatalogIds
  /\ Itinerary[1].id = Catalog[1].id

\* C9: in every returned itinerary the total cost equals the sum of the
\* visits' cost estimates, whatever estimatedCost the generator's output
\* carried or the reconstruction inserted.
\* The code breaks this: processDirectTripPlan uses a non-zero estimatedCost
\* of the parsed object as the total.
C9_TotalCostIsSumOfVisits ==
  response.status = 200 => response.data.totalCost = SumOver(Itinerary, CostOf)

\* the duration used to compute the visit's end time
DurationUsed(v) == v.duration

\* C10: in every returned itinerary the total duration equals the sum of the
\* durations used to compute the visits' end times; a totalDuration of the
\* generator's text is never used in its place.
\* The code breaks this: processDirectTripPlan uses a non-zero totalDuration
\* of the parsed object as the total.
C10_TotalDurationIsSumOfVisits ==
  response.status = 200 =>
     /\ response.data.hasTotalTime
     /\ response.data.totalTime = SumOver(Itinerary, DurationUsed)

\* C11: when the catalog of the request is not empty, every itinerary
\* returned has at least one visit, whatever text the generator returned.
\* The code breaks this: a text that deserializes to an object whose
\* selection list is empty or missing is scheduled as it is, and the
\* itinerary without visits is returned as the generator's plan.
C11_ItineraryHasAVisit ==
  (response.status = 200 /\ Catalog # <<>>) => Len(Itinerary) >= 1

\* the identifiers of the visits, in order
VisitIds(visits) == [i \in 1..Len(visits) |-> visits[i].id]

IndoorCompatible == {"museum", "cultural", "shopping", "food"}

\* C13: when the context carries active storm alerts, an attraction of an
\* outdoor-only category is in the returned itinerary only if every
\* indoor-compatible attraction of the catalog is in it already.
\* The code breaks this: when the weather filter leaves the keyword selection
\* empty, the fallback takes the first four attractions of the catalog,
\* whatever their category, and the top-up and the generator's own selection
\* are not filtered by weather either.
C13_OutdoorOnlyWhenIndoorExhausted ==
  (response.status = 200 /\ Len(realTimeData.alerts) > 0) =>
     ((\E i \in 1..Len(Itinerary) :
          Catalog[FindById(Catalog, Itinerary[i].id)].category \notin IndoorCompatible)
        => \A j \in 1..Len(Catalog) :
              Catalog[j].category \in IndoorCompatible =>
                 \E i \in 1..Len(Itinerary) : Itinerary[i].id = Catalog[j].id)

OneOfEach == <<TsimShaTsui, GrahamStreet, ThePeak>>
ClearWeather == Context("Sunny", 26, 5, 80, NoAlerts)

\* the one request of the run asked for 'cultural sites with lunch, budget 500'
AskedCulturalLunch ==
  req[1].requestKey # NoKey /\ req[1].requestKey[1] = TextCulturalLunch

\* C14: for the text 'cultural sites with lunch, budget 500', a catalog of one
\* cultural site, one market/food site and one nature site, and clear weather
\* without alerts, the rule-based selection has the cultural site and the
\* food site and not the nature site.
\* The code breaks this: the two sites selected are fewer than three, so the
\* top-up adds the remaining attraction, the nature site.
C14_CulturalLunchExcludesNature ==
  ( /\ response.status = 200
    /\ response.data.aiProvider = "Keyword Fallback"
    /\ load = 1 /\ AskedCulturalLunch
    /\ attractions = Given(OneOfEach)
    /\ realTimeData = ClearWeather ) =>
     /\ \E i \in 1..Len(Itinerary) : Itinerary[i].id = TsimShaTsui.id
     /\ \E i \in 1..Len(Itinerary) : Itinerary[i].id = GrahamStreet.id
     /\ \A i \in 1..Len(Itinerary) : Itinerary[i].id # ThePeak.id

\* C15: in every returned itinerary the visits' ordinals (visit order and
\* priority) are contiguous from 0, one per position of the list, whatever
\* visitOrder values the generator supplied.
\* The code breaks this: the ordinal of a visit built from the generator's
\* selection is the generator's visitOrder when it gave one, and every path
\* numbers the visits from 1.
C15_OrdinalsContiguousFromZero ==
  \A i \in 1..Len(Itinerary) :
     Itinerary[i].priority = i - 1 /\ Itinerary[i].visitOrder = i - 1

\* C16: the itineraries of the three paths have the same top-level fields
\* and the same representation of a visit's start time, those of the
\* itinerary built from the parsed generator output.
\* The code breaks this: the fallback's object has weatherContext and no
\* plannedAttractions (its visits are under itinerary[0].attractions only)
\* and its plannedStartTime is a Date; the text-extraction object has name
\* and totalEstimatedCost in place of title, itinerary and estimatedCost.
C16_SameShapeOnEveryPath ==
  response.status = 200 =>
     /\ response.data.fields = ProcessFields
     /\ response.data.plannedStartTime = "HH:MM"

\* C17: the cleaning chain is idempotent: applied to its own output it changes
\* nothing, whatever the candidate text.
\* The code breaks this: a g-flag replacement resumes after each match, so what
\* one pass leaves (the second comma of ",,}") the next pass still rewrites.
C17_CleaningIsIdempotent ==
  cleaning.pc = "recleaned" => cleaning.jsonStr = cleaning.once

SelectedItems(plan) == Member(plan, "selectedAttractions").items

\* C18: the malformed text of the scenario is repaired into text that
\* deserializes to exactly one selected item, whose time is "09:00" and whose
\* duration is the number 120.
\* The code breaks this: the time and number patterns start with '": ' (colon,
\* space), which the text does not contain; the cleaned text is not JSON.
C18_MalformedTextIsRepaired ==
  (cleaning.aiResponse = MalformedText /\ cleaning.pc = "deserialized") =>
     /\ cleaning.tripPlan.ok
     /\ Len(SelectedItems(cleaning.tripPlan.value)) = 1
     /\ Member(SelectedItems(cleaning.tripPlan.value)[1], "suggestedTime")
          = JsonValue("string", <<"0", "9", ":", "0", "0">>, <<>>)
     /\ Member(SelectedItems(cleaning.tripPlan.value)[1], "duration")
          = JsonValue("number", <<"1", "2", "0">>, <<>>)

\* the readings a snapshot reports are those of the current conditions
ReportsLiveConditions(snapshot, currentData) ==
  /\ snapshot.updateTime = currentData.updateTime
  /\ currentData.temperature # Missing => snapshot.temperature = currentData.temperature
  /\ currentData.humidity # Missing => snapshot.humidity = currentData.humidity
  /\ currentData.uvindex # Missing => snapshot.uvIndex = currentData.uvindex
  /\ currentData.icon # Missing => snapshot.weatherCondition = currentData.icon

\* C19: the weather fetch never throws; when the current-conditions call
\* fails it returns exactly the default snapshot; when only the warnings call
\* or only the forecast call fails it returns the live conditions, with the
\* alerts of the warning summary that arrived and none when the warnings call
\* failed.
\* The code breaks this: the warning messages carried by the current
\* conditions become alerts even when the warnings call failed, and a reading
\* of zero is replaced by the default's.
C19_WeatherFetchDegrades ==
  weather.pc = "returned" =>
     /\ ~weather.thrown
     /\ weather.currentResponse.status = "rejected" => weather.snapshot = FALLBACK_WEATHER
     /\ (/\ weather.currentResponse.status = "fulfilled" /\ ~weather.currentResponse.null
         /\ weather.warningResponse.status = "rejected"
         /\ weather.forecastResponse.status = "fulfilled") =>
           /\ ReportsLiveConditions(weather.snapshot, weather.currentResponse)
           /\ weather.snapshot.alerts = <<>>
     /\ (/\ weather.currentResponse.status = "fulfilled" /\ ~weather.currentResponse.null
         /\ weather.warningResponse.status = "fulfilled" /\ ~weather.warningResponse.null
         /\ weather.forecastResponse.status = "rejected") =>
           /\ ReportsLiveConditions(weather.snapshot, weather.currentResponse)
           /\ \A k \in 1..Len(weather.warningResponse.entries) :
                 weather.snapshot.alerts[k] = WarningAlert(weather.warningResponse.entries[k])

\* the generator's text deserializes and its selection can be scheduled
Deserializes(answer) ==
  ParseAnswer(answer).ok /\ ~ProcessThrows(ParseAnswer(answer), Catalog)

\* text extraction finds at least one item in the generator's text
ExtractsAnItem(answer) == ExtractedItems(answer, Catalog) # <<>>

\* C20: the tiers are tried in a fixed order and the first success wins.  On
\* every step that handles a generator response: a text-extraction itinerary
\* is returned only if deserialization or scheduling failed; the call goes on
\* to the rule-based fallback only if text extraction finds no item in the
\* text; and a text that deserializes and schedules is answered with the
\* itinerary built from it.
\* The code breaks this: a response without a brace-delimited substring is
\* sent to the rule-based fallback without text extraction being tried,
\* although the text names attractions of the catalog.
C20_TiersInFixedOrder ==
  [][\A r \in Requests, answer \in AnswerTexts :
        GeneratorReplies(r, answer) =>
          /\ (response'.status = 200
                /\ response'.data.aiProvider = "Local Llama 3.1 (Text Extraction)")
               => ~Deserializes(answer)
          /\ req'[r].pc = "trafficCatch" => ~ExtractsAnItem(answer)
          /\ Deserializes(answer) =>
               /\ response'.status = 200
               /\ response'.data.aiProvider = "Local Llama 3.1"]_vars

\* the catalog attractions whose names occur in the generator's text
NamedInText(answer) ==
  LET Named(a) == a.name \in NamesIn(answer)
  IN SelectSeq(Catalog, Named)

\* C21: when the generator's text does not deserialize and holds no
\* field-anchored item block but names a catalog attraction, the step that
\* handles it answers with a text-extraction itinerary whose visits are the
\* first at most four catalog attractions named in the text, in catalog order;
\* also when the text has no brace-delimited substring.
\* The code breaks this: without a brace-delimited substring text extraction
\* is never called and the call goes on to the rule-based fallback.
C21_NamedAttractionsAreExtracted ==
  [][\A r \in Requests, answer \in AnswerTexts :
        (/\ GeneratorReplies(r, answer)
         /\ ~ParseAnswer(answer).ok
         /\ ItemBlocks(answer) = <<>>
         /\ NamedInText(answer) # <<>>) =>
           /\ response'.status = 200
           /\ response'.data.aiProvider = "Local Llama 3.1 (Text Extraction)"
           /\ VisitIds(response'.data.plannedAttractions)
                = VisitIds(Slice(NamedInText(answer), 4))]_vars

\* the catalog attractions an itinerary visits, in its order
VisitedAttractions(visits) ==
  [i \in 1..Len(visits) |-> Catalog[FindById(Catalog, visits[i].id)]]

\* a generator selection of these attractions with no time and no duration
BareSelection(list) == [i \in 1..Len(list) |-> Item(list[i].id, list[i].name, <<>>, 0, 0)]

\* a generator text that only names these attractions
BareMentions(list) == Answer("proseBraces", <<>>, 0, 0, {list[i].name : i \in 1..Len(list)})

\* the start and end of every visit
Times(visits) == [i \in 1..Len(visits) |-> <<visits[i].start, visits[i].end>>]

\* C22: scheduling is the same function on every path.  For the list of
\* attractions of a returned itinerary (at most four, all named) and the
\* matrix of that call, the schedule of a parsed selection without times or
\* durations, of a text-extraction selection and of a rule-based fallback
\* selection have the same start and end, visit by visit.
\* The code breaks this: text extraction by names puts the visits at 09:00,
\* 11:00, 13:00 ... whatever the durations and the matrix, and the fallback
\* truncates the minute that the parsed path rounds.
C22_SameScheduleOnEveryPath ==
  (/\ response.status = 200
   /\ Len(Itinerary) \in 1..4
   /\ \A i \in 1..Len(Itinerary) : Itinerary[i].name # NoName) =>
     LET list == VisitedAttractions(Itinerary)
         matrix == response.fetched
         parsed == ProcessSchedule(BareSelection(list), list, matrix, 1, Dbl(9 * 60, 0))
         extracted == extractTripPlanFromText(BareMentions(list), list).plan.plannedAttractions
         fallback == FallbackSchedule(list, matrix, 1, Dbl(9 * 60, 0))
     IN /\ Times(parsed) = Times(fallback)
        /\ Times(parsed) = Times(extracted)

\* the duration of the matrix route whose origin is from and whose destination
\* is to when it exists with a positive duration, 90 minutes otherwise
RouteTime(matrix, from, to) ==
  LET routes == matrix.routes
      hits == {i \in 1..Len(routes) : routes[i].from = from /\ routes[i].to = to}
      first == routes[CHOOSE i \in hits : \A j \in hits : i <= j]
  IN  IF matrix.present /\ hits # {} /\ first.trafficDuration > 0
      THEN first.trafficDuration
      ELSE DefaultTravelMinutes

\* the schedulers that add travel time produced the itinerary
ScheduledWithTravel ==
  /\ response.status = 200
  /\ response.data.aiProvider \in {"Local Llama 3.1", "Keyword Fallback"}

\* C23: the travel time used between attraction A and the attraction B that
\* follows it is the duration of the matrix route from A to B when that route
\* exists with a positive duration, and 90 minutes otherwise; it is never the
\* duration of a route between another pair or of the reverse direction, also
\* when one attraction's name is contained in another's.
\* The code breaks this: getTrafficTime takes the first route whose names
\* contain, or are contained in, the two names, so "Victoria Peak" is matched
\* by the routes of "Victoria Peak Tram".
C23_TravelTimeIsOfTheRouteBetweenTheTwo ==
  ScheduledWithTravel =>
    \A i \in 1..(Len(Itinerary) - 1) :
       (Itinerary[i].name # NoName /\ Itinerary[i + 1].name # NoName) =>
          TravelTime(response.fetched, Itinerary[i].name, Itinerary[i + 1].name)
            = RouteTime(response.fetched, Itinerary[i].name, Itinerary[i + 1].name)

\* "HH:MM" with the hour in 00..23 and the minute in 00..59
WellFormedTime(time) == time # <<>> /\ time[1] \in 0..23 /\ time[2] \in 0..59

\* the time the generator suggests for the first visit of the itinerary that
\* a builder makes of its answer, <<>> when it suggests none
SuggestedFirst(answer, provider) ==
  IF provider = "Local Llama 3.1"
  THEN ParseAnswer(answer).selectedAttractions[1].suggestedTime
  ELSE ExtractedItems(answer, Catalog)[1].suggestedTime

\* C24: the first visit starts at the time the generator suggests only when
\* that time is present and a well-formed HH:MM (hour 00-23, minute 00-59);
\* otherwise it starts at 09:00.
\* The code breaks this: selected.suggestedTime || '09:00' takes any non-empty
\* string, so a suggested "25:00" is the first visit's start.
C24_FirstStartIsWellFormedOrNine ==
  [][\A r \in Requests, answer \in AnswerTexts :
        (/\ GeneratorReplies(r, answer)
         /\ response'.status = 200
         /\ response'.data.plannedAttractions # <<>>) =>
           LET first == response'.data.plannedAttractions[1]
               suggested == SuggestedFirst(answer, response'.data.aiProvider)
           IN  first.startStr = IF WellFormedTime(suggested) THEN suggested
                                ELSE <<9, 0>>]_vars

\* the duration the rule gives: the suggested one when present and positive,
\* else the catalog's visit time, else 120
RuleDuration(suggested, estimatedVisitTime) ==
  IF suggested > 0 THEN suggested
  ELSE IF estimatedVisitTime > 0 THEN estimatedVisitTime
  ELSE 120

\* C25: a visit lasts the duration the generator suggests only when that is
\* present and positive, otherwise the catalog's visit time of the attraction,
\* otherwise 120 minutes; hence every visit ends strictly after it starts.
\* The code breaks this: selected.duration || ... takes a negative duration,
\* and the visit then ends before it starts.
C25_DurationIsPositive ==
  [][\A r \in Requests, answer \in AnswerTexts :
        (GeneratorReplies(r, answer) /\ response'.status = 200) =>
           LET visits == response'.data.plannedAttractions
               items == ParseAnswer(answer).selectedAttractions
           IN  /\ \A i \in 1..Len(visits) :
                    visits[i].end # NaN /\ visits[i].end > visits[i].start
               /\ response'.data.aiProvider = "Local Llama 3.1" =>
                    \A i \in 1..Len(visits) :
                       visits[i].duration =
                         RuleDuration(items[i].duration, visits[i].estimatedVisitTime)]_vars

C27_FallbackSelectsEachAttractionOnce ==
  (response.status = 200 /\ response.data.aiProvider = "Keyword Fallback") =>
    \A i, j \in 1..Len(Itinerary) : Itinerary[i].id = Itinerary[j].id => i = j

\* the conditions under which the selection is to be restricted: the weather
\* condition indicates precipitation or a storm (in words or as the weather
\* provider's icon code), or an alert of high severity is active, or, with
\* temperature and UV index below their high thresholds, the air-quality
\* index is below 50
IndicatesPrecipitation(context) ==
  \/ Includes(context.weatherCondition, "rain")
  \/ Includes(context.weatherCondition, "storm")
  \/ Includes(context.weatherCondition, "shower")
  \/ /\ context.conditionCode # 0
     /\ mapHKOIconToStandard(context.conditionCode)
          \in {"rainy", "heavy-rain", "thunderstorm"}

HighSeverityAlert(context) ==
  \E i \in 1..Len(context.alerts) : context.alerts[i].severity = "high"

RestrictionDue(context) ==
  \/ IndicatesPrecipitation(context)
  \/ HighSeverityAlert(context)
  \/ /\ context.temperature <= 30 /\ context.uvIndex <= 8
     /\ context.airQuality < 50

\* C28: the rule-based fallback restricts its keyword selection to the
\* indoor-compatible categories exactly when the weather condition indicates
\* precipitation or a storm, or a high-severity alert is active, or (with
\* temperature and UV below the high thresholds) the air-quality index is
\* below 50.  Clear weather with only low-severity alerts is not restricted;
\* a condition that is the weather provider's rain code is.
\* The code breaks this: any alert, whatever its severity, restricts the
\* selection, and a numeric icon code fails the typeof test, so a rain code
\* restricts nothing.
C28_RestrictedExactlyInBadConditions ==
  (/\ response.status = 200
   /\ response.data.aiProvider = "Keyword Fallback"
   /\ realTimeData.given) =>
      (WeatherPreference(realTimeData) = "indoor" <=> RestrictionDue(realTimeData))

\* C29: the context of a request is built once: during one call of
\* generateDirectTripPlan the travel-time provider is queried at most once,
\* and the matrix written into the prompt is the matrix the itinerary is
\* scheduled with, on every path, the one through a failure of the generator
\* or of the deserialization included.
\* The code breaks this: the catch block awaits getTrafficMatrix again and
\* hands that second matrix to the fallback.
C29_ContextIsBuiltOnce ==
  [][\A r \in Requests, matrix \in TrafficAnswers :
        /\ (FallbackUnavailable(r, matrix) \/ CallGenerator(r, matrix)
              \/ CatchFallback(r, matrix)) => req[r].queries = 0
        /\ (CatchFallback(r, matrix) /\ req[r].cause # "threw" /\ response'.status = 200) =>
              response'.fetched = req[r].prompted
        /\ \A answer \in AnswerTexts :
              (GeneratorReplies(r, answer) /\ response'.status = 200) =>
                 response'.fetched = req[r].prompted]_vars

\* C30: once the generator's endpoint has become reachable and stays so, the
\* direct-plan requests that arrive later are eventually handed to the
\* generator, without anybody calling the health endpoint; a request that
\* arrives before the startup probe has completed does not bind the server to
\* the fallback.
\* The code breaks this: isAvailable is written by checkOllamaAvailability
\* alone, which runs in the constructor and in getStatus; after a startup
\* probe that found nothing, every request goes to the fallback until
\* somebody asks for the status.
C30_ReachableGeneratorIsUsed ==
  <>[](endpoint.reachable) => []<>(\E r \in Requests : req[r].pc = "generate")

\* the same with a status request made after the endpoint came up
StatusRequestRestoresTheGenerator ==
  <>[](endpoint.reachable /\ isAvailable) => []<>(\E r \in Requests : req[r].pc = "generate")

====
